---- MODULE Spec2Model ----
(***************************************************************************)
(* State-machine model of the feedback triage worker (src/src/index.ts):   *)
(* POST /feedback (insert, triage, instant alert), POST /clusters/:id/     *)
(* mark-fixed, and generateMorningDigest (batch read, clustering fold,     *)
(* fix lifecycle, priority score, digest assembly, send, mark processed)   *)
(* over the D1 tables of src/unnamed/part_000.                             *)
(*                                                                         *)
(* Conventions                                                             *)
(*  - time is counted in whole days (86400000 ms); Date.now() is `now`.    *)
(*  - ids (crypto.randomUUID) are the insertion index of the row.          *)
(*  - a feedback text is one of a few concrete strings; the regex and      *)
(*    substring functions of the source are tabulated on those strings.    *)
(*  - an embedding is a short integer vector; a centroid is an exact       *)
(*    rational vector [num, den] kept in lowest terms.                     *)
(*  - SQL NULL / JS undefined is "null" for text columns and NoNum for     *)
(*    numeric columns.                                                     *)
(***************************************************************************)
EXTENDS Integers, Sequences, FiniteSets, TLC

\* ------------------------------------------------------------------ bounds
MaxFeedback == 3
MaxFeedbackRepeat == 2
OnePass == 1
MaxNow == 3
MaxDigests == 2
MaxBefore == 6
MaxAfter == 2
MaxCount == 8
VolumeSlack == 1
MaxFixed == 2
MaxPositive == 1
MaxOrphans == 1
MaxPasses == 4
EmbDim == 3

\* ------------------------------------------------------- program constants
ClusterLookbackDays == 7
DefaultRolloutDays == 7
ThresholdPct == 86
MaxIssues == 15
MaxIndividual == 10
RuleConfidencePct == 70
DefaultConfidencePct == 80
AlertConfidencePct == 70

NoNum == 0 - 1
Null == "null"

Severities == {"P0", "P1", "P2", "P3"}

\* --------------------------------------------------------------- the texts
TCrash == "app crashes on resume"
TForce == "app force closes when returning from background"
TLove == "love the new update"
TAccount == "my account page force closes"

Texts == {TCrash, TForce, TLove, TAccount}

\* Three reports of one slow-playback problem, worded apart.
TSearch == "search results load slowly"
TVideo == "video playback stutters"
TNetwork == "video stutters on slow networks"

MatchTexts == {TSearch, TVideo, TNetwork}

\* The requests POST /feedback receives: content and source.
Submissions ==
  {[content |-> TCrash, source |-> "support"],
   [content |-> TForce, source |-> "github"],
   [content |-> TLove, source |-> "support"],
   [content |-> TAccount, source |-> "support"]}

\* Reports of one issue, worded alike.
ForceSubmissions == {[content |-> TForce, source |-> "github"]}

MatchSubmissions ==
  {[content |-> TSearch, source |-> "support"],
   [content |-> TVideo, source |-> "github"],
   [content |-> TNetwork, source |-> "support"]}

\* checkP0Keywords: some configured keyword is a substring of the text.
checkP0Keywords(t) == t = TCrash

\* The rule-based pre-classification of classifyFeedback (quickCategory,
\* quickSeverity): the first matching branch of the if-chain.
QuickCategory(t) ==
  CASE t = TCrash -> "crash"
    [] t \in {TSearch, TNetwork} -> "performance"
    [] OTHER -> "other"

QuickSeverity(t) == IF t = TCrash THEN "P0" ELSE "P2"

\* isUserSpecificFeedback: TAccount matches /\bmy\s+(subscription|account|...)\b/.
isUserSpecificFeedback(t) == t = TAccount

\* extractKeyPhrases: the regex matches plus the two normalised keys.
extractKeyPhrases(t) ==
  CASE t = TCrash -> {"crashes", "resume_crash"}
    [] t = TForce -> {"force close"}
    [] t = TAccount -> {"force close"}
    [] OTHER -> {}

\* The significant words of the keyword-overlap step: split on \W+, length
\* above 2, stop words removed.
SignificantWords(t) ==
  CASE t = TCrash -> {"app", "crashes", "resume"}
    [] t = TForce -> {"app", "force", "closes", "returning", "background"}
    [] t = TLove -> {"love", "new", "update"}
    [] t = TSearch -> {"search", "results", "load", "slowly"}
    [] t = TVideo -> {"video", "playback", "stutters"}
    [] t = TNetwork -> {"video", "stutters", "slow", "networks"}
    [] OTHER -> {"account", "page", "force", "closes"}

\* isPositiveFeedback of generateMorningDigest: "love" is a substring.
isPositiveFeedback(t) == t = TLove

\* ------------------------------------------------ the intelligence service
\* env.AI.run either answers ("ok"), throws ("down"), or answers the
\* embedding call with a vector of another dimension ("resized").
AIModes == {"ok", "down", "resized"}

\* What the classification model answers for a text (parsed JSON).
AIAnswer(t) ==
  CASE t = TCrash -> [severity |-> "P0", category |-> "crash", confidence |-> 80]
    [] t = TForce -> [severity |-> "P1", category |-> "crash", confidence |-> 60]
    [] t = TLove -> [severity |-> "P3", category |-> "other", confidence |-> 90]
    [] t \in MatchTexts ->
         [severity |-> "P2", category |-> "performance", confidence |-> 80]
    [] OTHER -> [severity |-> "P1", category |-> "crash", confidence |-> 80]

\* Further answers of the classification model: text without a JSON object
\* ("malformed"), the empty object {} ("partial"), and an object whose
\* fields are none of the listed values ("offlist"); the embedding call
\* answers as in "ok".
AnswerModes == {"ok", "malformed", "partial", "offlist"}

OffListAnswer == [severity |-> "critical", category |-> "outage", confidence |-> 150]

\* Math.max(0, Math.min(1, x)), in per cent.
Clamp(x) == IF x < 0 THEN 0 ELSE IF x > 100 THEN 100 ELSE x

\* The category enum of the classification prompt.
Categories ==
  {"crash", "login", "payment", "performance", "ui", "feature_request", "bug", "other"}

\* What the embedding model answers for a text, before padding to EmbDim.
AIVector(t) ==
  CASE t = TCrash -> <<2, 1>>
    [] t = TForce -> <<1, 0>>
    [] t = TLove -> <<0, 1>>
    [] t = TSearch -> <<1, 7, 10>>
    [] t = TVideo -> <<2, 11, 5>>
    [] t = TNetwork -> <<2, 11, 6>>
    [] OTHER -> <<1, 1>>

Pad(v) == [i \in 1..EmbDim |-> IF i <= Len(v) THEN v[i] ELSE 0]

ZeroVector(n) == [i \in 1..n |-> 0]

\* classifyFeedback: the model's answer, each missing field replaced by the
\* rule-based one; the rule-based result with confidence 0.7 when the call
\* throws.
classifyFeedback(ai, t) ==
  CASE ai \in {"down", "malformed"} ->
         [severity |-> QuickSeverity(t), category |-> QuickCategory(t),
          confidence |-> RuleConfidencePct]
    [] ai = "partial" ->
         [severity |-> QuickSeverity(t), category |-> QuickCategory(t),
          confidence |-> DefaultConfidencePct]
    [] ai = "offlist" ->
         [severity |-> OffListAnswer.severity, category |-> OffListAnswer.category,
          confidence |-> Clamp(OffListAnswer.confidence)]
    [] OTHER -> AIAnswer(t)

\* A fallback that gives up the dimension: no vector at all on a failure.
EmptyOnFailure(ai, t) ==
  CASE ai = "down" -> <<>>
    [] ai = "resized" -> SubSeq(Pad(AIVector(t)), 1, EmbDim - 1)
    [] OTHER -> Pad(AIVector(t))

\* generateEmbedding: response.data[0] when it is a non-empty array, else a
\* zero vector of the configured dimension.
generateEmbedding(ai, t) ==
  CASE ai = "down" -> ZeroVector(EmbDim)
    [] ai = "resized" -> SubSeq(Pad(AIVector(t)), 1, EmbDim - 1)
    [] OTHER -> Pad(AIVector(t))

\* ------------------------------------------------------------ vector maths
RECURSIVE SumTo(_, _)
SumTo(f, n) == IF n = 0 THEN 0 ELSE f[n] + SumTo(f, n - 1)

Dot(a, b) == SumTo([i \in 1..Len(a) |-> a[i] * b[i]], Len(a))

Abs(x) == IF x < 0 THEN 0 - x ELSE x

RECURSIVE Gcd(_, _)
Gcd(a, b) == IF b = 0 THEN a ELSE Gcd(b, a % b)

RECURSIVE GcdOf(_, _)
GcdOf(v, n) == IF n = 0 THEN 0 ELSE Gcd(Abs(v[n]), GcdOf(v, n - 1))

\* A rational vector in lowest terms.
Normalize(num, den) ==
  LET g == Gcd(den, GcdOf(num, Len(num)))
  IN  [num |-> [i \in 1..Len(num) |-> num[i] \div g], den |-> den \div g]

Exact(v) == [num |-> v, den |-> 1]

\* array.some(val => val !== 0)
HasNonZero(v) == \E i \in 1..Len(v) : v[i] # 0

\* A similarity computed over the components both vectors have, whatever
\* their lengths.
SimilarityOverCommonPrefix(vecA, centroid) ==
  LET n == IF Len(vecA) < Len(centroid.num) THEN Len(vecA) ELSE Len(centroid.num)
      a == SubSeq(vecA, 1, n)
      b == SubSeq(centroid.num, 1, n)
  IN  /\ n > 0
      /\ Dot(a, a) # 0
      /\ Dot(b, b) # 0
      /\ Dot(a, b) > 0
      /\ Dot(a, b) * Dot(a, b) * 100 * 100 > ThresholdPct * ThresholdPct * Dot(a, a) * Dot(b, b)

\* cosineSimilarity(vecA, vecB) > threshold, for an integer vector and a
\* rational centroid: 0 on empty or unequal lengths or a zero norm, else
\* dot / (|a| |b|), compared with ThresholdPct / 100 exactly.
SimilarityAbove(vecA, centroid) ==
  LET vecB == centroid.num
      dot == Dot(vecA, vecB)
      normA == Dot(vecA, vecA)
      normB == Dot(vecB, vecB)
  IN  /\ Len(vecA) > 0
      /\ Len(vecB) > 0
      /\ Len(vecA) = Len(vecB)
      /\ normA # 0
      /\ normB # 0
      /\ dot > 0
      /\ dot * dot * 100 * 100 > ThresholdPct * ThresholdPct * normA * normB

\* A running average that takes count for the number of earlier members.
AverageOffByOne(centroid, count, embedding) ==
  IF Len(embedding) = Len(centroid.num)
  THEN Normalize([i \in 1..Len(embedding) |->
                    centroid.num[i] * count + embedding[i] * centroid.den],
                 centroid.den * (count + 1))
  ELSE centroid

\* An update that starts the centroid over from the embedding when the
\* lengths differ.
RestartOnMismatch(centroid, count, embedding) ==
  IF Len(embedding) = Len(centroid.num)
  THEN Normalize([i \in 1..Len(embedding) |->
                    centroid.num[i] * (count - 1) + embedding[i] * centroid.den],
                 centroid.den * count)
  ELSE Exact(embedding)

\* The running-average update of a matched cluster, count already
\* incremented: centroid[i] = (centroid[i] * (count - 1) + embedding[i]) / count
\* when the lengths agree, else the centroid as it was.
UpdateCentroid(centroid, count, embedding) ==
  IF Len(embedding) = Len(centroid.num)
  THEN Normalize([i \in 1..Len(embedding) |->
                    centroid.num[i] * (count - 1) + embedding[i] * centroid.den],
                 centroid.den * count)
  ELSE centroid


\* --------------------------------------------------------- priority score
\* log10(count + 1) * 50, in thousandths, for the counts the model reaches
\* (rounded to the nearest thousandth).
FrequencyMilli(count) ==
  CASE count = 1 -> 15051
    [] count = 2 -> 23856
    [] count = 3 -> 30103
    [] count = 4 -> 34949
    [] count = 5 -> 38908
    [] count = 6 -> 42255
    [] count = 7 -> 45154
    [] OTHER -> 47712

SeverityScore(sev) ==
  CASE sev = "P0" -> 100
    [] sev = "P1" -> 75
    [] sev = "P2" -> 50
    [] sev = "P3" -> 25
    [] OTHER -> 50

\* The severity calculatePriorityScore scores with.
EffectiveSeverity(c) ==
  IF c.fix_status = "fix_deployed" /\ c.current_severity # Null
  THEN c.current_severity
  ELSE IF c.fix_status = "failed"
       THEN (IF c.original_severity # Null THEN c.original_severity ELSE c.severity)
       ELSE c.severity

\* A score that takes the report count as a discount instead of a boost.
ScoreDiscountsCount(c, t) ==
  LET hours == (t - c.last_seen) * 24
      recency == IF 100 - hours * 2 > 0 THEN 100 - hours * 2 ELSE 0
  IN  SeverityScore(EffectiveSeverity(c)) * 1000 * 55
      - FrequencyMilli(c.count) * 25
      + recency * 1000 * 10
      + 50 * 1000 * 10

\* calculatePriorityScore, in units of 10^-5: weights 0.55 / 0.25 / 0.10 /
\* 0.10 as per cent, sub-scores in thousandths; sentiment_score is 0.5 for
\* every cluster (no code path writes it), so negativity is 50.
calculatePriorityScore(c, t) ==
  LET hours == (t - c.last_seen) * 24
      recency == IF 100 - hours * 2 > 0 THEN 100 - hours * 2 ELSE 0
  IN  SeverityScore(EffectiveSeverity(c)) * 1000 * 55
      + FrequencyMilli(c.count) * 25
      + recency * 1000 * 10
      + 50 * 1000 * 10

\* ------------------------------------------------------------- fix lifecycle
\* The triples (reports_before_fix, reports_after_fix, rollout_period_days)
\* with 35 * after = before * rollout for which the IEEE-754 double
\* evaluation of  after / rollout < (before / 7) * 0.2  is true (before up
\* to 50, rollout 1, 5 or 7); on every other triple of that range the
\* double comparison agrees with the exact one.
DoubleTieBelow ==
  {<<5, 1, 7>>, <<10, 2, 7>>, <<15, 3, 7>>, <<20, 4, 7>>, <<25, 5, 7>>,
   <<30, 6, 7>>, <<40, 8, 7>>, <<50, 10, 7>>,
   <<21, 3, 5>>, <<42, 6, 5>>, <<49, 7, 5>>}

\* avgAfterFix < avgBeforeFix * 0.2 as the doubles decide it.
AvgAfterBelowFifth(before, after, rollout) ==
  IF 35 * after = before * rollout
  THEN <<before, after, rollout>> \in DoubleTieBelow
  ELSE 35 * after < before * rollout

\* What the lifecycle loop does with one in-memory cluster at time t:
\* "none" (not fix_deployed, or no date), "resolved", "failed", "rollout".
FixBranch(c, t) ==
  IF ~(c.fix_status = "fix_deployed" /\ c.fix_deployed_date # NoNum
       /\ c.fix_deployed_date # 0)
  THEN "none"
  ELSE LET rolloutDays == IF c.rollout_period_days = NoNum \/ c.rollout_period_days = 0
                          THEN DefaultRolloutDays ELSE c.rollout_period_days
           before == IF c.reports_before_fix = NoNum \/ c.reports_before_fix = 0
                     THEN c.count ELSE c.reports_before_fix
           after == IF c.reports_after_fix = NoNum THEN 0 ELSE c.reports_after_fix
       IN  IF t - c.fix_deployed_date > rolloutDays
           THEN (IF AvgAfterBelowFifth(before, after, rolloutDays)
                 THEN "resolved" ELSE "failed")
           ELSE "rollout"

\* The in-memory cluster after the lifecycle loop.
EvaluateFix(c, t) ==
  LET b == FixBranch(c, t)
  IN  CASE b = "resolved" -> [c EXCEPT !.fix_status = "resolved"]
        [] b = "failed" ->
             [c EXCEPT !.fix_status = "failed",
                       !.current_severity =
                          IF c.original_severity # Null THEN c.original_severity
                          ELSE c.severity]
        [] b = "rollout" ->
             [c EXCEPT !.reports_after_fix =
                          (IF c.reports_after_fix = NoNum THEN 0
                           ELSE c.reports_after_fix) + 1]
        [] OTHER -> c

\* A lifecycle loop that takes a failed fix through failed back to open.
WriteFixReopensFailed(row, c, t) ==
  LET b == FixBranch(c, t)
      e == EvaluateFix(c, t)
  IN  CASE b = "resolved" -> [row EXCEPT !.fix_status = "resolved"]
        [] b = "failed" -> [row EXCEPT !.fix_status = "open",
                                       !.current_severity = e.current_severity]
        [] b = "rollout" -> [row EXCEPT !.reports_after_fix = e.reports_after_fix]
        [] OTHER -> row

\* The UPDATE the lifecycle loop sends for that cluster.
WriteFix(row, c, t) ==
  LET b == FixBranch(c, t)
      e == EvaluateFix(c, t)
  IN  CASE b = "resolved" -> [row EXCEPT !.fix_status = "resolved"]
        [] b = "failed" -> [row EXCEPT !.fix_status = "failed",
                                       !.current_severity = e.current_severity]
        [] b = "rollout" -> [row EXCEPT !.reports_after_fix = e.reports_after_fix]
        [] OTHER -> row


\* ------------------------------------------------------------------- state
VARIABLES
  now,        \* Date.now(), in days
  ai,         \* how env.AI.run behaved in the latest turn of the clustering
              \* loop (AIModes); "ok" outside the loop
  feedback,   \* table feedback: the rows in insertion order, id = index
  clusters,   \* table clusters: the rows in insertion order, cluster_id = index
  members,    \* table cluster_members: set of <<cluster_id, feedback_id>>
  alerts,     \* table instant_alerts: the feedback ids alerted
  digests,    \* table digests: the number of rows and the latest row
  post,       \* the POST /feedback request in flight
  dg,         \* the generateMorningDigest run in flight
  merged      \* history: per cluster_id, the embeddings merged into it, in order

vars == <<now, ai, feedback, clusters, members, alerts, digests, post, dg, merged>>

NoDigest == [generated_at |-> NoNum, top_issues |-> <<>>, individual_support |-> <<>>,
             positive_feedback |-> <<>>, sent_to_telegram |-> 0]

DgIdle == [pc |-> "idle", todo |-> <<>>, clusters |-> <<>>, already |-> {},
           result |-> "none"]

PostIdle == [pc |-> "idle", id |-> 0, alert |-> FALSE]

Init ==
  /\ now = 1
  /\ ai = "ok"
  /\ feedback = <<>>
  /\ clusters = <<>>
  /\ members = {}
  /\ alerts = {}
  /\ digests = [count |-> 0, latest |-> NoDigest]
  /\ post = PostIdle
  /\ dg = DgIdle
  /\ merged = <<>>

\* ------------------------------------------------------------- environment
\* Time passes between requests.
Tick ==
  /\ dg.pc = "idle"
  /\ post.pc = "idle"
  /\ now < MaxNow
  /\ now' = now + 1
  /\ UNCHANGED <<ai, feedback, clusters, members, alerts, digests, post, dg, merged>>

\* About a lookback window passes between requests.
LookbackWaits ==
  {ClusterLookbackDays - 1, ClusterLookbackDays, ClusterLookbackDays + 1}

Wait ==
  /\ dg.pc = "idle"
  /\ post.pc = "idle"
  /\ \E days \in LookbackWaits :
       /\ now + days <= MaxNow + ClusterLookbackDays
       /\ now' = now + days
  /\ UNCHANGED <<ai, feedback, clusters, members, alerts, digests, post, dg, merged>>

\* ----------------------------------------------------------- POST /feedback
\* handlePostFeedback up to the INSERT, the request body one of bodies.
PostInsertFrom(limit, bodies) ==
  /\ post.pc = "idle"
  /\ Len(feedback) < limit
  /\ \E body \in bodies :
       feedback' = Append(feedback,
         [content |-> body.content, source |-> body.source, timestamp |-> now,
          processed |-> 0,
          instant_alert_sent |-> 0, classification_severity |-> Null,
          classification_confidence |-> NoNum])
  /\ post' = [pc |-> "triage", id |-> Len(feedback) + 1, alert |-> FALSE]
  /\ UNCHANGED <<now, ai, clusters, members, alerts, digests, dg, merged>>

PostInsert(limit) == PostInsertFrom(limit, Submissions)

\* triageFeedback: the severity it stores and whether it asks for an alert.
TriageSeverity(m, t) ==
  IF checkP0Keywords(t) THEN "P0" ELSE classifyFeedback(m, t).severity

\* ... and the confidence, in per cent (1.0 on a keyword hit).
TriageConfidence(m, t) ==
  IF checkP0Keywords(t) THEN 100 ELSE classifyFeedback(m, t).confidence

\* A routing rule that alerts on P0 alone.
AlertOnP0Alone(m, t) ==
  checkP0Keywords(t) \/ classifyFeedback(m, t).severity = "P0"

TriageAlert(m, t) ==
  \/ checkP0Keywords(t)
  \/ classifyFeedback(m, t).severity = "P0"
  \/ /\ classifyFeedback(m, t).severity = "P1"
     /\ classifyFeedback(m, t).confidence >= AlertConfidencePct

PostTriage(modes) ==
  /\ post.pc = "triage"
  /\ \E m \in modes :
       LET t == feedback[post.id].content
       IN  /\ feedback' = [feedback EXCEPT
                            ![post.id].classification_severity = TriageSeverity(m, t),
                            ![post.id].classification_confidence = TriageConfidence(m, t)]
           /\ post' = IF TriageAlert(m, t)
                      THEN [post EXCEPT !.pc = "alert", !.alert = TRUE]
                      ELSE PostIdle
  /\ UNCHANGED <<now, ai, clusters, members, alerts, digests, dg, merged>>

\* sendInstantAlert: the alert row and the flag are written only when the
\* Telegram call succeeds.
PostAlert ==
  /\ post.pc = "alert"
  /\ \E success \in BOOLEAN :
       IF success
       THEN /\ alerts' = alerts \cup {post.id}
            /\ feedback' = [feedback EXCEPT ![post.id].instant_alert_sent = 1]
       ELSE UNCHANGED <<alerts, feedback>>
  /\ post' = PostIdle
  /\ UNCHANGED <<now, ai, clusters, members, digests, dg, merged>>

\* -------------------------------------------- POST /clusters/:id/mark-fixed
DowngradeSeverity(sev) ==
  CASE sev = "P0" -> "P2"
    [] sev = "P1" -> "P3"
    [] sev = "P2" -> "P3"
    [] sev = "P3" -> "P3"
    [] OTHER -> "P2"

\* An UPDATE that leaves the reports counted after an earlier fix.
MarkFixedKeepsReports(row, rolloutDays, t) ==
  [row EXCEPT !.fix_status = "fix_deployed",
              !.fix_deployed_date = t,
              !.rollout_period_days =
                 IF rolloutDays = 0 THEN DefaultRolloutDays ELSE rolloutDays,
              !.original_severity = row.severity,
              !.current_severity = DowngradeSeverity(row.severity),
              !.reports_before_fix = row.count]

\* The row after handleMarkFixed's UPDATE; rolloutDays 0 stands for an
\* absent rollout_days.
MarkFixedRow(row, rolloutDays, t) ==
  [row EXCEPT !.fix_status = "fix_deployed",
              !.fix_deployed_date = t,
              !.rollout_period_days =
                 IF rolloutDays = 0 THEN DefaultRolloutDays ELSE rolloutDays,
              !.original_severity = row.severity,
              !.current_severity = DowngradeSeverity(row.severity),
              !.reports_before_fix = row.count,
              !.reports_after_fix = 0]

RolloutInputs == {0, 1}

\* handleMarkFixed; an unknown cluster id answers 404 and writes nothing.
MarkFixed ==
  /\ \E id \in 1..(Len(clusters) + 1), r \in RolloutInputs :
       IF id <= Len(clusters)
       THEN clusters' = [clusters EXCEPT ![id] = MarkFixedRow(clusters[id], r, now)]
       ELSE UNCHANGED clusters
  /\ UNCHANGED <<now, ai, feedback, members, alerts, digests, post, dg, merged>>


\* --------------------------------------------------- generateMorningDigest
\* The sequences listing each element of S once.
RECURSIVE Perms(_)
Perms(S) ==
  IF S = {} THEN {<<>>}
  ELSE UNION {{<<x>> \o p : p \in Perms(S \ {x})} : x \in S}

\* The ids feedback WHERE processed = 0 AND instant_alert_sent = 0.
Unprocessed ==
  {i \in 1..Len(feedback) :
     feedback[i].processed = 0 /\ feedback[i].instant_alert_sent = 0}

\* ... ORDER BY timestamp DESC: every order SQL may return (ties are free).
BatchOrders ==
  {p \in Perms(Unprocessed) :
     \A i, j \in 1..Len(p) :
        i < j => feedback[p[i]].timestamp >= feedback[p[j]].timestamp}

\* A run without the early return: an empty batch goes through the whole
\* generation.
DigestReadGoesOn(limit) ==
  /\ dg.pc = "idle"
  /\ digests.count < limit
  /\ \E b \in BatchOrders : dg' = [dg EXCEPT !.pc = "load", !.todo = b]
  /\ UNCHANGED <<now, ai, feedback, clusters, members, alerts, digests, post, merged>>

\* The result of an early return or of the whole run is in dg.result.
DigestRead(limit) ==
  /\ dg.pc = "idle"
  /\ digests.count < limit
  /\ IF Unprocessed = {}
     THEN dg' = [dg EXCEPT !.pc = "done", !.result = "nofeedback"]
     ELSE \E b \in BatchOrders : dg' = [dg EXCEPT !.pc = "load", !.todo = b]
  /\ UNCHANGED <<now, ai, feedback, clusters, members, alerts, digests, post, merged>>

\* The in-memory Cluster built from a row of clusters.
LoadCluster(id, row) ==
  [cluster_id |-> id,
   category |-> row.category,
   severity |-> IF row.current_severity # Null THEN row.current_severity
                ELSE row.severity,
   centroid |-> row.centroid,
   count |-> row.count,
   first_seen |-> row.first_seen,
   last_seen |-> row.last_seen,
   representative_feedback_id |-> row.representative_feedback_id,
   representative_feedback |-> row.representative_feedback,
   priority_score |-> IF row.priority_score = NoNum THEN 0 ELSE row.priority_score,
   top_sources |-> row.top_sources,
   fix_status |-> IF row.fix_status = Null THEN "open" ELSE row.fix_status,
   fix_deployed_date |-> row.fix_deployed_date,
   rollout_period_days |-> IF row.rollout_period_days = NoNum \/ row.rollout_period_days = 0
                           THEN DefaultRolloutDays ELSE row.rollout_period_days,
   original_severity |-> IF row.original_severity # Null THEN row.original_severity
                         ELSE row.severity,
   current_severity |-> IF row.current_severity # Null THEN row.current_severity
                        ELSE row.severity,
   reports_before_fix |-> row.reports_before_fix,
   reports_after_fix |-> row.reports_after_fix]

\* A load without the WHERE clause: every row of clusters.
EveryId(t) == {i \in 1..Len(clusters) : Len(clusters[i].centroid.num) # 0}

\* The ids clusters WHERE last_seen > now - lookback, rows with an empty
\* centroid skipped.
ActiveIds(t) ==
  {i \in 1..Len(clusters) :
     /\ clusters[i].last_seen > t - ClusterLookbackDays
     /\ Len(clusters[i].centroid.num) # 0}

\* ... ORDER BY last_seen DESC.
LoadOrders(t) ==
  {p \in Perms(ActiveIds(t)) :
     \A i, j \in 1..Len(p) :
        i < j => clusters[p[i]].last_seen >= clusters[p[j]].last_seen}

\* clusterFeedbacksWithEmbeddings up to the loop: the candidate clusters and
\* the feedback ids that already have a membership.
ClusterLoad ==
  /\ dg.pc = "load"
  /\ \E p \in LoadOrders(now) :
       dg' = [dg EXCEPT !.pc = "fold",
                        !.clusters = [i \in 1..Len(p) |-> LoadCluster(p[i], clusters[p[i]])],
                        !.already = {m[2] : m \in members}]
  /\ UNCHANGED <<now, ai, feedback, clusters, members, alerts, digests, post, merged>>

\* A loop without the skip: every item of the batch is matched again.
SkipNever(already, id) == FALSE

\* The skip of an item that is already in a cluster.
SkipItem(already, id) == id \in already

\* Matching loops that pass over no cluster.
PassOverNone(c) == FALSE

\* A cluster the matching loops pass over: one member, user-specific text.
IsUserSpecificCluster(c) ==
  c.count = 1 /\ isUserSpecificFeedback(c.representative_feedback)

\* A list fixed when the pass began: only the clusters loaded from storage.
LoadedOnly(list) ==
  LET WasLoaded(c) == c.fix_status # Null
  IN  SelectSeq(list, WasLoaded)

\* The clusters an item is matched against: the shared in-memory list,
\* with the clusters earlier items of the batch created or updated.
Candidates(list) == list

\* The cluster a loop over the list stops at: the first one passing the test.
FirstId(list, Test(_)) ==
  LET hits == {i \in 1..Len(list) : Test(list[i])}
  IN  IF hits = {} THEN 0
      ELSE list[CHOOSE i \in hits : \A j \in hits : i <= j].cluster_id

\* An embedding loop that runs to the end of the list and keeps the most
\* similar of the clusters above the threshold (the earliest of equals).
MostSimilarMatch(list, embedding) ==
  LET Test(c) == /\ ~IsUserSpecificCluster(c)
                 /\ HasNonZero(c.centroid.num)
                 /\ SimilarityAbove(embedding, c.centroid)
      hits == {i \in 1..Len(list) : Test(list[i])}
      \* cos(embedding, x) > cos(embedding, y), both positive
      Closer(x, y) ==
        Dot(embedding, x.num) * Dot(embedding, x.num) * Dot(y.num, y.num)
          > Dot(embedding, y.num) * Dot(embedding, y.num) * Dot(x.num, x.num)
      best == {i \in hits : \A j \in hits : ~Closer(list[j].centroid, list[i].centroid)}
  IN  IF HasNonZero(embedding) /\ hits # {}
      THEN list[CHOOSE i \in best : \A j \in best : i <= j].cluster_id
      ELSE 0

\* The embedding loop: the first cluster whose similarity is above the
\* threshold, 0 when there is none or the embedding is all zero.
CosineMatch(list, embedding) ==
  LET Test(c) == /\ ~IsUserSpecificCluster(c)
                 /\ HasNonZero(c.centroid.num)
                 /\ SimilarityAbove(embedding, c.centroid)
  IN  IF HasNonZero(embedding) THEN FirstId(list, Test) ELSE 0

\* The text fallback: the first cluster sharing a key phrase, or of the same
\* category and severity and sharing a significant word.
TextMatch(list, t, classification) ==
  LET Test(c) ==
        /\ ~IsUserSpecificCluster(c)
        /\ \/ extractKeyPhrases(t) \cap extractKeyPhrases(c.representative_feedback) # {}
           \/ /\ c.category = classification.category
              /\ c.severity = classification.severity
              /\ SignificantWords(t) \cap SignificantWords(c.representative_feedback) # {}
  IN  FirstId(list, Test)

\* The cluster an item joins, 0 for a new one.
MatchedCluster(list, m, t) ==
  LET byCosine == CosineMatch(Candidates(list), generateEmbedding(m, t))
  IN  IF byCosine # 0 THEN byCosine
      ELSE TextMatch(Candidates(list), t, classifyFeedback(m, t))

\* The in-memory Cluster a new cluster starts as.
NewCluster(id, fid, row, classification, embedding) ==
  [cluster_id |-> id,
   category |-> classification.category,
   severity |-> classification.severity,
   centroid |-> Exact(embedding),
   count |-> 1,
   first_seen |-> row.timestamp,
   last_seen |-> row.timestamp,
   representative_feedback_id |-> fid,
   representative_feedback |-> row.content,
   priority_score |-> 0,
   top_sources |-> <<row.source>>,
   fix_status |-> Null,
   fix_deployed_date |-> NoNum,
   rollout_period_days |-> NoNum,
   original_severity |-> Null,
   current_severity |-> Null,
   reports_before_fix |-> NoNum,
   reports_after_fix |-> NoNum]

\* The row INSERT INTO clusters stores for it (the other columns default).
NewRow(c) ==
  [category |-> c.category,
   severity |-> c.severity,
   centroid |-> c.centroid,
   count |-> 1,
   first_seen |-> c.first_seen,
   last_seen |-> c.last_seen,
   representative_feedback_id |-> c.representative_feedback_id,
   representative_feedback |-> c.representative_feedback,
   priority_score |-> NoNum,
   top_sources |-> c.top_sources,
   fix_status |-> "open",
   fix_deployed_date |-> NoNum,
   rollout_period_days |-> DefaultRolloutDays,
   original_severity |-> Null,
   current_severity |-> Null,
   reports_before_fix |-> NoNum,
   reports_after_fix |-> NoNum]

\* The matched in-memory cluster after the item is added to it.
AddToCluster(c, row, embedding) ==
  [c EXCEPT !.count = c.count + 1,
            !.last_seen = IF row.timestamp > c.last_seen THEN row.timestamp
                          ELSE c.last_seen,
            !.top_sources = IF \E i \in 1..Len(c.top_sources) : c.top_sources[i] = row.source
                            THEN c.top_sources
                            ELSE Append(c.top_sources, row.source),
            !.centroid = UpdateCentroid(c.centroid, c.count + 1, embedding)]

\* An UPDATE that leaves the count column out.
WriteMatchedKeepsCount(row, c) ==
  [row EXCEPT !.last_seen = c.last_seen,
              !.top_sources = c.top_sources, !.centroid = c.centroid]

\* UPDATE clusters SET count, last_seen, top_sources, centroid.
WriteMatched(row, c) ==
  [row EXCEPT !.count = c.count, !.last_seen = c.last_seen,
              !.top_sources = c.top_sources, !.centroid = c.centroid]

\* Whether the item takes the user-specific branch, which ends its turn.
TakesUserSpecificBranch(t) == isUserSpecificFeedback(t)

\* One turn of the loop over the batch, the service behaving as m.
FoldTurn(m) ==
  LET fid == Head(dg.todo)
      row == feedback[fid]
      t == row.content
      embedding == generateEmbedding(m, t)
      classification == classifyFeedback(m, t)
      newId == Len(clusters) + 1
      fresh == NewCluster(newId, fid, row, classification, embedding)
      hit == IF TakesUserSpecificBranch(t) THEN 0
             ELSE MatchedCluster(dg.clusters, m, t)
  IN  IF SkipItem(dg.already, fid)
      THEN /\ dg' = [dg EXCEPT !.todo = Tail(dg.todo)]
           /\ UNCHANGED <<clusters, members, merged>>
      ELSE IF hit = 0
      THEN /\ dg' = [dg EXCEPT !.todo = Tail(dg.todo),
                               !.clusters = Append(dg.clusters, fresh)]
           /\ clusters' = Append(clusters, NewRow(fresh))
           /\ members' = members \cup {<<newId, fid>>}
           /\ merged' = Append(merged, <<embedding>>)
      ELSE LET k == CHOOSE i \in 1..Len(dg.clusters) : dg.clusters[i].cluster_id = hit
               c == AddToCluster(dg.clusters[k], row, embedding)
           IN  /\ dg' = [dg EXCEPT !.todo = Tail(dg.todo), !.clusters[k] = c]
               /\ clusters' = [clusters EXCEPT ![hit] = WriteMatched(clusters[hit], c)]
               /\ members' = members \cup {<<hit, fid>>}
               /\ merged' = [merged EXCEPT ![hit] = Append(merged[hit], embedding)]

FoldItem(modes) ==
  /\ dg.pc = "fold"
  /\ dg.todo # <<>>
  /\ \E m \in modes :
       /\ ai' = m
       /\ FoldTurn(m)
  /\ UNCHANGED <<now, feedback, alerts, digests, post>>

\* The loop is over: the clusters go on to the lifecycle evaluation.
FoldDone ==
  /\ dg.pc = "fold"
  /\ dg.todo = <<>>
  /\ dg' = [dg EXCEPT !.pc = "evaluate"]
  /\ ai' = "ok"
  /\ UNCHANGED <<now, feedback, clusters, members, alerts, digests, post, merged>>

\* Array.prototype.sort((a, b) => b.priority_score - a.priority_score): a
\* stable sort, descending.
RECURSIVE InsertDesc(_, _)
InsertDesc(sorted, c) ==
  IF sorted = <<>> THEN <<c>>
  ELSE IF Head(sorted).priority_score >= c.priority_score
       THEN <<Head(sorted)>> \o InsertDesc(Tail(sorted), c)
       ELSE <<c>> \o sorted

RECURSIVE SortDesc(_)
SortDesc(list) ==
  IF list = <<>> THEN <<>>
  ELSE InsertDesc(SortDesc(SubSeq(list, 1, Len(list) - 1)), list[Len(list)])

\* A slice that keeps the whole list.
SliceKeepsAll(list, n) == list

\* slice(0, n)
Slice(list, n) == SubSeq(list, 1, IF Len(list) < n THEN Len(list) ELSE n)

\* What a digest keeps of a cluster (the PriorityIssue).
Issue(c) ==
  [cluster_id |-> c.cluster_id, priority_score |-> c.priority_score,
   fix_status |-> c.fix_status, count |-> c.count,
   representative_feedback |-> c.representative_feedback]

IssuesOf(list) == [i \in 1..Len(list) |-> Issue(list[i])]

\* The clusters after the lifecycle loop and the scoring loop.
Evaluated(list, t) ==
  [i \in 1..Len(list) |->
     [EvaluateFix(list[i], t) EXCEPT
        !.priority_score = calculatePriorityScore(EvaluateFix(list[i], t), t)]]

\* A group of new issues that takes every cluster without a fix under watch.
IsNotUnderWatch(c) == c.fix_status \notin {"fix_deployed", "failed"}

\* The general clusters of one fix status group, as the digest lists them.
IsNewIssue(c) == c.fix_status = Null \/ c.fix_status = "open"
IsMonitoring(c) == c.fix_status = "fix_deployed"
IsFailedFix(c) == c.fix_status = "failed"

\* An individual support bucket that takes every cluster that is not praise.
AnyNotPraise(c) == ~isPositiveFeedback(c.representative_feedback)

\* The single-item clusters the digest lists as individual support.
IsIndividualSupport(c) == c.count = 1 /\ ~isPositiveFeedback(c.representative_feedback)
IsPositiveSingle(c) == c.count = 1 /\ isPositiveFeedback(c.representative_feedback)

\* The digest assembled from the evaluated clusters.
AssembleDigest(list, t) ==
  LET sorted == SortDesc(list)
      IsGeneral(c) == c.count > 1
      generalClusters == SelectSeq(sorted, IsGeneral)
      topIssues == IssuesOf(Slice(SortDesc(SelectSeq(generalClusters, IsNewIssue)), MaxIssues))
      monitoring == IssuesOf(SortDesc(SelectSeq(generalClusters, IsMonitoring)))
      failedFixes == IssuesOf(SortDesc(SelectSeq(generalClusters, IsFailedFix)))
      NotInTop(x) == \A i \in 1..Len(topIssues) : topIssues[i].cluster_id # x.cluster_id
  IN  [generated_at |-> t,
       top_issues |-> topIssues \o SelectSeq(monitoring, NotInTop)
                                \o SelectSeq(failedFixes, NotInTop),
       individual_support |->
          IssuesOf(Slice(SortDesc(SelectSeq(sorted, IsIndividualSupport)), MaxIndividual)),
       positive_feedback |-> IssuesOf(SortDesc(SelectSeq(sorted, IsPositiveSingle))),
       sent_to_telegram |-> 0]

\* The row of clusters after the lifecycle and score UPDATEs for the
\* in-memory cluster c (current row values for every other column).
WriteEvaluated(row, c, t) ==
  [WriteFix(row, c, t) EXCEPT
     !.priority_score = calculatePriorityScore(EvaluateFix(c, t), t)]

\* generateMorningDigest from the lifecycle loop to the INSERT INTO digests.
DigestEvaluate ==
  /\ dg.pc = "evaluate"
  /\ LET list == Evaluated(dg.clusters, now)
         InMemory(id) == {i \in 1..Len(dg.clusters) : dg.clusters[i].cluster_id = id}
     IN  /\ clusters' =
               [id \in 1..Len(clusters) |->
                  IF InMemory(id) = {} THEN clusters[id]
                  ELSE WriteEvaluated(clusters[id],
                                      dg.clusters[CHOOSE i \in InMemory(id) : TRUE], now)]
         /\ digests' = [count |-> digests.count + 1, latest |-> AssembleDigest(list, now)]
         /\ dg' = [dg EXCEPT !.pc = "send", !.clusters = SortDesc(list)]
  /\ UNCHANGED <<now, ai, feedback, members, alerts, post, merged>>

\* sendTelegramMessage of the digest; a failure returns before the feedback
\* is marked processed.
DigestSend ==
  /\ dg.pc = "send"
  /\ \E success \in BOOLEAN :
       IF success
       THEN /\ digests' = [digests EXCEPT !.latest.sent_to_telegram = 1]
            /\ dg' = [dg EXCEPT !.pc = "mark"]
       ELSE /\ UNCHANGED digests
            /\ dg' = [dg EXCEPT !.pc = "done", !.result = "sendfailed"]
  /\ UNCHANGED <<now, ai, feedback, clusters, members, alerts, post, merged>>

\* UPDATE feedback SET processed = 1 WHERE processed = 0 AND instant_alert_sent = 0
MarkProcessed(rows) ==
  [i \in 1..Len(rows) |->
     IF rows[i].processed = 0 /\ rows[i].instant_alert_sent = 0
     THEN [rows[i] EXCEPT !.processed = 1] ELSE rows[i]]

DigestMark ==
  /\ dg.pc = "mark"
  /\ feedback' = MarkProcessed(feedback)
  /\ dg' = [dg EXCEPT !.pc = "done", !.result = "sent"]
  /\ UNCHANGED <<now, ai, clusters, members, alerts, digests, post, merged>>

\* The run returns to its caller.
DigestReturn ==
  /\ dg.pc = "done"
  /\ dg' = DgIdle
  /\ UNCHANGED <<now, ai, feedback, clusters, members, alerts, digests, post, merged>>

\* ---------------------------------------------------------- storage failures
\* env.DB statements that throw. generateMorningDigest and
\* clusterFeedbacksWithEmbeddings catch none of them: the exception leaves
\* the run at the statement that threw, and what the earlier statements
\* wrote stays written.

\* A run that goes on after a statement has thrown.
CarryOnAfterFailure(d) == [d EXCEPT !.result = "error"]

\* The exception leaves generateMorningDigest.
AbortGeneration(d) == [d EXCEPT !.pc = "done", !.result = "error"]

\* The SELECT of the batch throws.
ReadFails(limit) ==
  /\ dg.pc = "idle"
  /\ digests.count < limit
  /\ dg' = AbortGeneration(dg)
  /\ UNCHANGED <<now, ai, feedback, clusters, members, alerts, digests, post, merged>>

\* The SELECT of the clusters or of the memberships throws.
LoadFails ==
  /\ dg.pc = "load"
  /\ dg' = AbortGeneration(dg)
  /\ UNCHANGED <<now, ai, feedback, clusters, members, alerts, digests, post, merged>>

\* A statement of a turn of the clustering loop throws: the first one that
\* writes or one before it (nothing of the turn is written), or one after
\* it (written is what the first one wrote: the membership of a matched
\* item, the clusters row of a new cluster).
FoldFails(modes) ==
  /\ dg.pc = "fold"
  /\ dg.todo # <<>>
  /\ ~SkipItem(dg.already, Head(dg.todo))
  /\ \E m \in modes, written \in BOOLEAN :
       LET fid == Head(dg.todo)
           row == feedback[fid]
           t == row.content
           embedding == generateEmbedding(m, t)
           newId == Len(clusters) + 1
           fresh == NewCluster(newId, fid, row, classifyFeedback(m, t), embedding)
           hit == IF TakesUserSpecificBranch(t) THEN 0
                  ELSE MatchedCluster(dg.clusters, m, t)
           Orphans == {k \in 1..Len(clusters) : \A x \in members : x[1] # k}
       IN  IF ~written
           THEN UNCHANGED <<clusters, members, merged>>
           ELSE IF hit = 0
           THEN /\ Cardinality(Orphans) < MaxOrphans
                /\ clusters' = Append(clusters, NewRow(fresh))
                /\ merged' = Append(merged, <<embedding>>)
                /\ UNCHANGED members
           ELSE /\ members' = members \cup {<<hit, fid>>}
                /\ UNCHANGED <<clusters, merged>>
  /\ dg' = AbortGeneration(dg)
  /\ ai' = "ok"
  /\ UNCHANGED <<now, feedback, alerts, digests, post>>

\* A statement between the clustering and the INSERT INTO digests throws:
\* in the lifecycle loop after the UPDATEs of the first n clusters of the
\* list, or later, after the score UPDATEs of the first n (all n of them:
\* a statement of the summary loop or the INSERT INTO digests).
EvaluateFails ==
  /\ dg.pc = "evaluate"
  /\ \A id \in 1..Len(clusters) : clusters[id].reports_after_fix < MaxAfter
  /\ \E stage \in {"lifecycle", "score"}, n \in 0..Len(dg.clusters) :
       LET At(id) == CHOOSE i \in 1..Len(dg.clusters) : dg.clusters[i].cluster_id = id
           InMemory(id) == \E i \in 1..Len(dg.clusters) : dg.clusters[i].cluster_id = id
       IN  clusters' =
             [id \in 1..Len(clusters) |->
                IF ~InMemory(id) THEN clusters[id]
                ELSE IF stage = "score" /\ At(id) <= n
                THEN WriteEvaluated(clusters[id], dg.clusters[At(id)], now)
                ELSE IF stage = "score" \/ At(id) <= n
                THEN WriteFix(clusters[id], dg.clusters[At(id)], now)
                ELSE clusters[id]]
  /\ dg' = AbortGeneration(dg)
  /\ UNCHANGED <<now, ai, feedback, members, alerts, digests, post, merged>>

\* A SELECT of formatMorningDigest or the UPDATE of sent_to_telegram throws.
SendFails ==
  /\ dg.pc = "send"
  /\ dg' = AbortGeneration(dg)
  /\ UNCHANGED <<now, ai, feedback, clusters, members, alerts, digests, post, merged>>

\* The UPDATE that marks the feedback processed throws.
MarkFails ==
  /\ dg.pc = "mark"
  /\ dg' = AbortGeneration(dg)
  /\ UNCHANGED <<now, ai, feedback, clusters, members, alerts, digests, post, merged>>

\* ---------------------------------------------------------- specifications
\* The requests are served one after the other. The environments differ in
\* how many rows and digests they allow, in how the AI service may behave and
\* in whether time passes and fixes are marked.

\* generateMorningDigest after its first read, the AI service behaving as
\* one of modes in each turn of the clustering loop.
DigestSteps(modes) ==
  \/ ClusterLoad
  \/ FoldItem(modes)
  \/ FoldDone
  \/ DigestEvaluate
  \/ DigestSend
  \/ DigestMark
  \/ DigestReturn

\* POST /feedback, then its triage and alert.
PostSteps(limit, modes) ==
  \/ dg.pc = "idle" /\ PostInsert(limit)
  \/ PostTriage(modes)
  \/ PostAlert

\* One digest over up to MaxFeedback items, any AI behaviour.
PassNext ==
  \/ PostSteps(MaxFeedback, AIModes)
  \/ post.pc = "idle" /\ DigestRead(OnePass)
  \/ DigestSteps(AIModes)

SpecPass == Init /\ [][PassNext]_vars

\* Repeated digests over up to MaxFeedbackRepeat items, any AI behaviour.
RepeatNext ==
  \/ PostSteps(MaxFeedbackRepeat, AIModes)
  \/ post.pc = "idle" /\ DigestRead(MaxDigests)
  \/ DigestSteps(AIModes)

SpecRepeat == Init /\ [][RepeatNext]_vars

\* Fixes are marked and time passes; the AI service answers.
FixNext ==
  \/ Tick
  \/ PostSteps(MaxFeedbackRepeat, {"ok"})
  \/ dg.pc = "idle" /\ post.pc = "idle" /\ MarkFixed
  \/ post.pc = "idle" /\ DigestRead(MaxDigests)
  \/ DigestSteps({"ok"})

SpecFix == Init /\ [][FixNext]_vars

\* One digest over up to MaxFeedbackRepeat items, the classification model
\* answering as one of AnswerModes.
ClassifyNext ==
  \/ PostSteps(MaxFeedbackRepeat, AnswerModes)
  \/ post.pc = "idle" /\ DigestRead(OnePass)
  \/ DigestSteps(AnswerModes)

SpecClassify == Init /\ [][ClassifyNext]_vars

\* Digests a lookback window apart, fixes are marked; the AI service answers.
LookbackNext ==
  \/ Wait
  \/ PostSteps(MaxFeedbackRepeat, {"ok"})
  \/ dg.pc = "idle" /\ post.pc = "idle" /\ MarkFixed
  \/ post.pc = "idle" /\ DigestRead(MaxDigests)
  \/ DigestSteps({"ok"})

SpecLookback == Init /\ [][LookbackNext]_vars

\* One digest over up to MaxFeedback reports of the slow-playback problem;
\* the AI service answers.
MatchNext ==
  \/ dg.pc = "idle" /\ PostInsertFrom(MaxFeedback, MatchSubmissions)
  \/ PostTriage({"ok"})
  \/ post.pc = "idle" /\ DigestRead(OnePass)
  \/ DigestSteps({"ok"})

SpecMatch == Init /\ [][MatchNext]_vars

\* Digest runs over up to MaxFeedbackRepeat items until one has stored its
\* digest; any statement of a run may throw; one fix is marked; the AI
\* service answers.
StorageNext ==
  \/ PostSteps(MaxFeedbackRepeat, {"ok"})
  \/ /\ dg.pc = "idle"
     /\ post.pc = "idle"
     /\ \A id \in 1..Len(clusters) : clusters[id].fix_status = "open"
     /\ MarkFixed
  \/ post.pc = "idle" /\ DigestRead(OnePass)
  \/ post.pc = "idle" /\ ReadFails(OnePass)
  \/ DigestSteps({"ok"})
  \/ LoadFails
  \/ FoldFails({"ok"})
  \/ EvaluateFails
  \/ SendFails
  \/ MarkFails

SpecStorage == Init /\ [][StorageNext]_vars

\* POST /feedback requests are served while a digest runs: the steps of the
\* two interleave at every await. One digest over up to MaxFeedbackRepeat
\* items; the AI service answers.
ConcurrentNext ==
  \/ PostInsert(MaxFeedbackRepeat)
  \/ PostTriage({"ok"})
  \/ PostAlert
  \/ DigestRead(OnePass)
  \/ DigestSteps({"ok"})

SpecConcurrent == Init /\ [][ConcurrentNext]_vars

\* Up to MaxPasses digests over up to MaxFeedback reports of one issue
\* while days pass and its fix is marked; the AI service answers.
AbsorbNext ==
  \/ Tick
  \/ dg.pc = "idle" /\ PostInsertFrom(MaxFeedback, ForceSubmissions)
  \/ PostTriage({"ok"})
  \/ dg.pc = "idle" /\ post.pc = "idle" /\ MarkFixed
  \/ post.pc = "idle" /\ DigestRead(MaxPasses)
  \/ DigestSteps({"ok"})

SpecAbsorb == Init /\ [][AbsorbNext]_vars

\* ------------------------------------------------- a fix under evaluation
\* The states in which a fix comes up for evaluation, for a range of report
\* counts: before reports of TForce arrive on day 1 and a digest clusters
\* them (cluster 1); mark-fixed is called that day with the rollout period
\* rollout; if after > 0, one more report arrives on the last day of the
\* rollout and after digests run that day; then the rollout period ends.
\* Telegram is down throughout, so every report is still unprocessed. Each
\* table is computed with the operators of the actions that write it.
SeedItem(t) ==
  [content |-> TForce, source |-> "github", timestamp |-> t, processed |-> 0,
   instant_alert_sent |-> 0, classification_severity |-> TriageSeverity("ok", TForce),
   classification_confidence |-> TriageConfidence("ok", TForce)]

SeedFeedback(before, after, rollout) ==
  [i \in 1..(before + (IF after > 0 THEN 1 ELSE 0)) |->
     SeedItem(IF i <= before THEN 1 ELSE 1 + rollout)]

\* The first digest's in-memory cluster after folding items 1..n.
RECURSIVE SeedFolded(_)
SeedFolded(n) ==
  IF n = 1
  THEN NewCluster(1, 1, SeedItem(1), classifyFeedback("ok", TForce),
                  generateEmbedding("ok", TForce))
  ELSE AddToCluster(SeedFolded(n - 1), SeedItem(1), generateEmbedding("ok", TForce))

\* Row 1 of clusters after the first digest and the mark-fixed call.
SeedFixedRow(before, rollout) ==
  LET c == SeedFolded(before)
      row == WriteEvaluated(WriteMatched(NewRow(SeedFolded(1)), c), c, 1)
  IN  MarkFixedRow(row, rollout, 1)

\* The in-memory cluster of the k-th digest of the last rollout day, after
\* its clustering loop, given the row before that digest.
SeedLoaded(row, k, rollout) ==
  IF k = 1
  THEN AddToCluster(LoadCluster(1, row), SeedItem(1 + rollout),
                    generateEmbedding("ok", TForce))
  ELSE LoadCluster(1, row)

\* Row 1 after k digests of the last rollout day.
RECURSIVE SeedRow(_, _, _)
SeedRow(before, k, rollout) ==
  IF k = 0 THEN SeedFixedRow(before, rollout)
  ELSE LET row == SeedRow(before, k - 1, rollout)
           c == SeedLoaded(row, k, rollout)
       IN  WriteEvaluated(WriteMatched(row, c), c, 1 + rollout)

\* The digest stored last.
SeedDigest(before, after, rollout) ==
  IF after = 0
  THEN AssembleDigest(Evaluated(<<SeedFolded(before)>>, 1), 1)
  ELSE AssembleDigest(
         Evaluated(<<SeedLoaded(SeedRow(before, after - 1, rollout), after, rollout)>>,
                   1 + rollout),
         1 + rollout)

SeedRollouts == {1, DefaultRolloutDays}

LifecycleInit ==
  \E before \in 1..MaxBefore, after \in 0..MaxAfter, rollout \in SeedRollouts :
     LET rows == SeedFeedback(before, after, rollout)
     IN  /\ now = rollout + 2
         /\ ai = "ok"
         /\ feedback = rows
         /\ clusters = <<SeedRow(before, after, rollout)>>
         /\ members = {<<1, i>> : i \in 1..Len(rows)}
         /\ alerts = {}
         /\ digests = [count |-> after + 1, latest |-> SeedDigest(before, after, rollout)]
         /\ post = PostIdle
         /\ dg = DgIdle
         /\ merged = <<[i \in 1..Len(rows) |-> generateEmbedding("ok", TForce)]>>

\* One more digest runs.
LifecycleNext ==
  \/ DigestRead(MaxAfter + 2)
  \/ DigestSteps({"ok"})

SpecLifecycle == LifecycleInit /\ [][LifecycleNext]_vars

\* The seeded states are states of the program: these two are reached from
\* Init under SpecFix.
SeedState(before, after, rollout) ==
  /\ now = rollout + 2
  /\ feedback = SeedFeedback(before, after, rollout)
  /\ clusters = <<SeedRow(before, after, rollout)>>
  /\ digests = [count |-> after + 1, latest |-> SeedDigest(before, after, rollout)]
  /\ members = {<<1, i>> : i \in 1..Len(feedback)}
  /\ merged = <<[i \in 1..Len(feedback) |-> generateEmbedding("ok", TForce)]>>
  /\ dg = DgIdle
  /\ post = PostIdle

SeedReachedFromInit == SeedState(2, 0, 1)
SeedWithLateReportReachedFromInit == SeedState(1, 1, 1)

\* ------------------------------------------------- a digest of many clusters
\* The states in which the clustering loop of a digest has returned a list
\* longer than the digest's caps. On day 1 the reports of m + d issues
\* arrive (two or three each), a digest clusters them and their fixes are
\* marked deployed, m with the default rollout period and d with a period of
\* one day; if earlier = 2 another digest runs on day 2. On day MaxNow the
\* reports of g more issues (two or three each), s single reports and p
\* single praises arrive and the digest of that day has clustered them.
\* Telegram is down throughout. The model's texts stand for the reports of
\* as many distinct issues: the steps after the clustering loop read of a
\* cluster its count, fix fields, severity, last_seen and whether its text
\* is praise. Each table is computed with the operators of the actions that
\* write it.
VolumeKinds(m, d, s, g, p) ==
  [i \in 1..m |-> "monitoring"] \o [i \in 1..d |-> "due"]
    \o [i \in 1..s |-> "single"] \o [i \in 1..g |-> "general"]
    \o [i \in 1..p |-> "positive"]

VolumeFixed(kind) == kind \in {"monitoring", "due"}

VolumeText(kinds, i) ==
  CASE VolumeFixed(kinds[i]) -> TForce
    [] kinds[i] = "general" -> <<TForce, TCrash, TLove>>[(i % 3) + 1]
    [] kinds[i] = "single" -> <<TAccount, TCrash, TForce>>[(i % 3) + 1]
    [] OTHER -> TLove

VolumeCount(kinds, i) ==
  IF kinds[i] \in {"single", "positive"} THEN 1 ELSE 2 + (i % 2)

VolumeDay(kind) == IF VolumeFixed(kind) THEN 1 ELSE MaxNow

\* The feedback ids before those of cluster i.
VolumeOffset(kinds, i) ==
  SumTo([j \in 1..Len(kinds) |-> VolumeCount(kinds, j)], i - 1)

VolumeItem(kinds, i) ==
  [content |-> VolumeText(kinds, i), source |-> "support",
   timestamp |-> VolumeDay(kinds[i]), processed |-> 0, instant_alert_sent |-> 0,
   classification_severity |-> TriageSeverity("ok", VolumeText(kinds, i)),
   classification_confidence |-> TriageConfidence("ok", VolumeText(kinds, i))]

RECURSIVE VolumeFeedback(_, _)
VolumeFeedback(kinds, i) ==
  IF i > Len(kinds) THEN <<>>
  ELSE [j \in 1..VolumeCount(kinds, i) |-> VolumeItem(kinds, i)]
         \o VolumeFeedback(kinds, i + 1)

\* The in-memory cluster i after the clustering loop folded n of its reports.
RECURSIVE VolumeFolded(_, _, _)
VolumeFolded(kinds, i, n) ==
  LET item == VolumeItem(kinds, i)
  IN  IF n = 1
      THEN NewCluster(i, VolumeOffset(kinds, i) + 1, item,
                      classifyFeedback("ok", item.content),
                      generateEmbedding("ok", item.content))
      ELSE AddToCluster(VolumeFolded(kinds, i, n - 1), item,
                        generateEmbedding("ok", item.content))

\* Row i of clusters: as the clustering loop wrote it for the clusters of
\* day MaxNow; after the digest of day 1, the mark-fixed call and the digest
\* of day 2 (if any) for the clusters of day 1.
VolumeRow(kinds, i, earlier) ==
  LET c == VolumeFolded(kinds, i, VolumeCount(kinds, i))
      created == WriteMatched(NewRow(c), c)
      marked == MarkFixedRow(WriteEvaluated(created, c, 1),
                             IF kinds[i] = "due" THEN 1 ELSE 0, 1)
  IN  IF ~VolumeFixed(kinds[i]) THEN created
      ELSE IF earlier = 2 THEN WriteEvaluated(marked, LoadCluster(i, marked), 2)
      ELSE marked

\* The list the clustering loop of day MaxNow returns: the clusters loaded
\* from storage, then the ones it created.
VolumeList(kinds, earlier) ==
  [i \in 1..Len(kinds) |->
     IF VolumeFixed(kinds[i]) THEN LoadCluster(i, VolumeRow(kinds, i, earlier))
     ELSE VolumeFolded(kinds, i, VolumeCount(kinds, i))]

\* The digest stored last, if one was generated.
VolumeDigests(kinds, fixed, earlier) ==
  IF fixed = 0 THEN [count |-> 0, latest |-> NoDigest]
  ELSE [count |-> earlier,
        latest |->
          IF earlier = 1
          THEN AssembleDigest(
                 Evaluated([i \in 1..fixed |->
                              VolumeFolded(kinds, i, VolumeCount(kinds, i))], 1), 1)
          ELSE AssembleDigest(
                 Evaluated([i \in 1..fixed |->
                              LoadCluster(i, VolumeRow(kinds, i, 1))], 2), 2)]

VolumeInit ==
  \E m \in 0..MaxFixed, d \in 0..MaxFixed, p \in 0..MaxPositive, earlier \in 1..2,
     s \in (MaxIndividual - 1)..(MaxIndividual + VolumeSlack),
     g \in (MaxIssues - 1)..(MaxIssues + VolumeSlack) :
     LET kinds == VolumeKinds(m, d, s, g, p)
         rows == VolumeFeedback(kinds, 1)
     IN  /\ now = MaxNow
         /\ ai = "ok"
         /\ feedback = rows
         /\ clusters = [i \in 1..Len(kinds) |-> VolumeRow(kinds, i, earlier)]
         /\ members = UNION {{<<i, VolumeOffset(kinds, i) + k>> :
                                 k \in 1..VolumeCount(kinds, i)} : i \in 1..Len(kinds)}
         /\ alerts = {}
         /\ digests = VolumeDigests(kinds, m + d, earlier)
         /\ post = PostIdle
         /\ dg = [pc |-> "evaluate", todo |-> <<>>,
                  clusters |-> VolumeList(kinds, earlier),
                  already |-> 1..Len(rows), result |-> "none"]
         /\ merged = [i \in 1..Len(kinds) |->
                        [k \in 1..VolumeCount(kinds, i) |->
                           generateEmbedding("ok", VolumeText(kinds, i))]]

\* The digest goes on from the lifecycle loop.
VolumeNext ==
  \/ DigestEvaluate
  \/ DigestSend
  \/ DigestMark
  \/ DigestReturn

SpecVolume == VolumeInit /\ [][VolumeNext]_vars

\* ================================================================== claims
\* A stored cluster that is fix_deployed and past its rollout window at time t.
PastWindow(row, t) ==
  /\ row.fix_status = "fix_deployed"
  /\ row.fix_deployed_date # NoNum
  /\ t - row.fix_deployed_date > row.rollout_period_days

\* C1, as the spec states it: once a digest generation has completed, no
\* stored cluster is still fix_deployed past its rollout window, whatever its
\* last_seen and whether or not the batch was empty. The code leaves such a
\* cluster alone when the batch is empty (early return before the lifecycle
\* loop), so this is violated.
C1_NoneLeftDeployed ==
  dg.pc = "done" =>
    \A id \in 1..Len(clusters) : ~PastWindow(clusters[id], now)

\* C1: the failing state: a digest generation that found no unprocessed
\* feedback has returned and a cluster is still fix_deployed past its window.
C1_LeftDeployedReached ==
  /\ dg.pc = "done"
  /\ dg.result = "nofeedback"
  /\ \E id \in 1..Len(clusters) : PastWindow(clusters[id], now)

\* The fix_status values listed in the buckets of the latest stored digest.
ListedStatuses ==
  LET d == digests.latest
  IN  {d.top_issues[i].fix_status : i \in 1..Len(d.top_issues)}
      \cup {d.individual_support[i].fix_status : i \in 1..Len(d.individual_support)}
      \cup {d.positive_feedback[i].fix_status : i \in 1..Len(d.positive_feedback)}

\* C2, as the spec states it: a resolved cluster is in no bucket of a
\* generated digest, whatever its member count. The code filters by
\* fix_status only the clusters with count > 1, so a resolved single-item
\* cluster is listed under individual_support or positive_feedback.
C2_ResolvedNeverListed == "resolved" \notin ListedStatuses

\* C2: the failing state: the stored digest lists a resolved cluster with one
\* member among the individual support cases.
C2_ResolvedSingleListed ==
  \E i \in 1..Len(digests.latest.individual_support) :
     /\ digests.latest.individual_support[i].fix_status = "resolved"
     /\ digests.latest.individual_support[i].count = 1

\* The item at the head of the batch already has a row in cluster_members.
HeadHasMembership ==
  /\ dg.pc = "fold"
  /\ dg.todo # <<>>
  /\ \E m \in members : m[2] = Head(dg.todo)

\* C3: the turn of the clustering loop for an item that already has a
\* recorded membership adds no cluster_members row, creates no cluster and
\* leaves every cluster's count and centroid unchanged, in the table and in
\* the pass's own list; so a second pass over an already clustered batch
\* changes none of them.
C3_SecondPassIdempotent ==
  [][HeadHasMembership =>
       /\ members' = members
       /\ Len(clusters') = Len(clusters)
       /\ \A id \in 1..Len(clusters) :
            /\ clusters'[id].count = clusters[id].count
            /\ clusters'[id].centroid = clusters[id].centroid
       /\ dg'.clusters = dg.clusters]_vars

\* C3 happens: a later pass has gone through a whole batch that held an item
\* clustered by an earlier pass.
C3_SecondPassDone ==
  /\ dg.pc = "fold"
  /\ dg.todo = <<>>
  /\ digests.count >= 1
  /\ \E fid \in Unprocessed : fid \in dg.already

\* A stored cluster with one member and a user-specific representative text.
UserSpecificSingleton(row) ==
  row.count = 1 /\ isUserSpecificFeedback(row.representative_feedback)

\* The item at the head of the batch is user-specific and not yet clustered.
HeadIsUserSpecific ==
  /\ dg.pc = "fold"
  /\ dg.todo # <<>>
  /\ ~HeadHasMembership
  /\ isUserSpecificFeedback(feedback[Head(dg.todo)].content)

\* C4: no step adds a member to a user-specific single-item cluster or
\* changes its count (it is never a match target, by cosine or by text, and
\* its count stays 1); and the turn of a user-specific item never merges it
\* into an existing cluster: it leaves the existing clusters as they are and
\* starts a new cluster with count 1 holding just that item.
C4_UserSpecificKeptApart ==
  [][/\ \A id \in 1..Len(clusters) :
          UserSpecificSingleton(clusters[id]) =>
             /\ clusters'[id].count = 1
             /\ {m \in members' : m[1] = id} = {m \in members : m[1] = id}
     /\ HeadIsUserSpecific =>
          /\ Len(clusters') = Len(clusters) + 1
          /\ UserSpecificSingleton(clusters'[Len(clusters')])
          /\ members' = members \cup {<<Len(clusters'), Head(dg.todo)>>}
          /\ \A id \in 1..Len(clusters) : clusters'[id] = clusters[id]]_vars

\* C4 happens: a user-specific single-item cluster was a candidate when a
\* later item whose embedding is within the threshold of its centroid was
\* folded, and that item started a cluster of its own.
C4_KeptApartReached ==
  \E i, j \in 1..Len(clusters) :
     /\ i < j
     /\ UserSpecificSingleton(clusters[i])
     /\ ~isUserSpecificFeedback(clusters[j].representative_feedback)
     /\ clusters[j].count = 1
     /\ HasNonZero(clusters[j].centroid.num)
     /\ Len(clusters[j].centroid.num) = Len(clusters[i].centroid.num)
     /\ SimilarityAbove(clusters[j].centroid.num, clusters[i].centroid)

\* The fix_status changes the spec's lifecycle allows.
AllowedStatusChanges ==
  {<<"open", "fix_deployed">>, <<"fix_deployed", "resolved">>,
   <<"fix_deployed", "failed">>}

\* C5, as the spec states it: a stored cluster's fix_status changes only
\* along open -> fix_deployed -> {resolved, failed}. handleMarkFixed does not
\* read the current fix_status, so it takes a resolved or failed cluster back
\* to fix_deployed.
C5_StatusOnlyForward ==
  [][\A id \in 1..Len(clusters) :
        \/ clusters'[id].fix_status = clusters[id].fix_status
        \/ <<clusters[id].fix_status, clusters'[id].fix_status>>
              \in AllowedStatusChanges]_vars

\* C5: the state before the failing step: a cluster a digest has resolved,
\* with no request in flight, so that mark-fixed can be called on it.
C5_ResolvedAtRest ==
  /\ dg.pc = "idle"
  /\ post.pc = "idle"
  /\ \E id \in 1..Len(clusters) : clusters[id].fix_status = "resolved"

\* C6, as the spec states it: a fix_deployed cluster evaluated after its
\* rollout window becomes resolved exactly when
\* 35 * reports_after_fix < reports_before_fix * rollout_period_days, and
\* otherwise failed with current_severity back at original_severity. The
\* code compares doubles, and at 35 * after = before * rollout the rounding
\* decides: 5 reports before, 1 after, 7 days gives resolved.
C6_ResolvedIffBelowFifth ==
  [][dg.pc = "evaluate" =>
       \A k \in 1..Len(dg.clusters) :
          LET id == dg.clusters[k].cluster_id
              row == clusters[id]
          IN  PastWindow(row, now) =>
                IF 35 * row.reports_after_fix
                      < row.reports_before_fix * row.rollout_period_days
                THEN clusters'[id].fix_status = "resolved"
                ELSE /\ clusters'[id].fix_status = "failed"
                     /\ clusters'[id].current_severity = row.original_severity]_vars

\* C6: the failing state: a cluster is resolved although its reports after
\* the fix are not below a fifth of the rate before it.
C6_ResolvedAtTheFifth ==
  \E id \in 1..Len(clusters) :
     /\ clusters[id].fix_status = "resolved"
     /\ 35 * clusters[id].reports_after_fix
           >= clusters[id].reports_before_fix * clusters[id].rollout_period_days

\* The cluster_members rows of one cluster.
MembersOf(id) == {m \in members : m[1] = id}

\* C7: with digest passes run one after the other, in every reachable state
\* each feedback item has at most one cluster_members row, and each
\* cluster's count is the number of its rows, so no item is counted in two
\* clusters or twice in one.
C7_OneMembershipPerItem ==
  /\ \A m1, m2 \in members : m1[2] = m2[2] => m1 = m2
  /\ \A id \in 1..Len(clusters) : clusters[id].count = Cardinality(MembersOf(id))

\* C7 happens: two digest passes have run over the same single item, which
\* the first of them clustered.
C7_ItemSeenTwice ==
  /\ Len(feedback) = 1
  /\ digests.count = 2
  /\ members # {}

\* The item at the head of the batch goes through the matching loops.
HeadIsMatched ==
  /\ dg.pc = "fold"
  /\ dg.todo # <<>>
  /\ ~HeadHasMembership
  /\ ~isUserSpecificFeedback(feedback[Head(dg.todo)].content)

\* The stored clusters, as they are when the item's turn begins, that the
\* item's embedding e is within the threshold of.
StoredSimilar(e) ==
  {id \in ActiveIds(now) :
     /\ ~UserSpecificSingleton(clusters[id])
     /\ HasNonZero(e)
     /\ HasNonZero(clusters[id].centroid.num)
     /\ SimilarityAbove(e, clusters[id].centroid)}

\* ... and those the text fallback accepts for text t classified as cls.
StoredTextual(t, cls) ==
  {id \in ActiveIds(now) :
     /\ ~UserSpecificSingleton(clusters[id])
     /\ \/ extractKeyPhrases(t)
              \cap extractKeyPhrases(clusters[id].representative_feedback) # {}
        \/ /\ clusters[id].category = cls.category
           /\ clusters[id].severity = cls.severity
           /\ SignificantWords(t)
                 \cap SignificantWords(clusters[id].representative_feedback) # {}}

\* The step adds the head item to the stored cluster id and to no other.
JoinsCluster(id) ==
  /\ Len(clusters') = Len(clusters)
  /\ members' = members \cup {<<id, Head(dg.todo)>>}
  /\ clusters'[id].count = clusters[id].count + 1
  /\ \A other \in 1..Len(clusters) : other # id => clusters'[other] = clusters[other]

\* The step starts a single-item cluster for the head item.
StartsSingleton ==
  /\ Len(clusters') = Len(clusters) + 1
  /\ clusters'[Len(clusters')].count = 1
  /\ members' = members \cup {<<Len(clusters'), Head(dg.todo)>>}
  /\ \A other \in 1..Len(clusters) : clusters'[other] = clusters[other]

\* The match decision of a turn, read off the stored clusters, which hold
\* what the earlier turns of the same pass created and updated.
DecisionSeesEarlierTurns ==
  HeadIsMatched =>
    LET t == feedback[Head(dg.todo)].content
        similar == StoredSimilar(generateEmbedding(ai', t))
        textual == StoredTextual(t, classifyFeedback(ai', t))
    IN  IF similar # {} THEN \E id \in similar : JoinsCluster(id)
        ELSE IF textual # {} THEN \E id \in textual : JoinsCluster(id)
        ELSE StartsSingleton

\* The spec's scenario: the batch is one report each of TCrash, TForce and
\* TLove, the clustering loop is over, and every embedding call was answered
\* in full.
ScenarioFolded ==
  /\ Len(feedback) = 3
  /\ {feedback[i].content : i \in 1..3} = {TCrash, TForce, TLove}
  /\ \A i \in 1..3 : feedback[i].instant_alert_sent = 0
  /\ dg.pc \in {"evaluate", "send", "mark", "done"}
  /\ \A id \in 1..Len(merged) : \A k \in 1..Len(merged[id]) :
        merged[id][k] \in {Pad(AIVector(t)) : t \in Texts}

\* The scenario's outcome: the two crash reports share a cluster of count 2
\* and the third report is alone in a cluster of its own.
ScenarioOutcome ==
  /\ Len(clusters) = 2
  /\ \E id \in 1..2 :
        /\ clusters[id].count = 2
        /\ {feedback[m[2]].content : m \in MembersOf(id)} = {TCrash, TForce}
        /\ clusters[3 - id].count = 1
        /\ {feedback[m[2]].content : m \in MembersOf(3 - id)} = {TLove}

\* C8: in one pass every turn of the clustering loop decides against the
\* clusters as the earlier turns left them: the item joins a stored cluster
\* that matches it (by embedding, else by text) and starts a singleton only
\* when none does; so in the scenario the two similar reports end in one
\* cluster of count 2 and the unrelated one in its own singleton.
C8_FoldedOneAtATime ==
  /\ [](ScenarioFolded => ScenarioOutcome)
  /\ [][DecisionSeesEarlierTurns]_vars

\* C8 happens: the scenario's pass has folded its three reports.
C8_ScenarioReached == ScenarioFolded /\ ScenarioOutcome

\* The cluster_members rows of one feedback item.
MembershipsOf(fid) == {m \in members : m[2] = fid}

\* A turn of the clustering loop in which every call to the AI service fails,
\* for an item not yet clustered.
FailedTurn ==
  /\ dg.pc = "fold"
  /\ dg.todo # <<>>
  /\ ~HeadHasMembership
  /\ ai' = "down"

\* What such a turn does: the item is classified by the rules, with a
\* severity of P0..P3, its embedding is the all-zero vector of the configured
\* dimension, and it ends in exactly one cluster: an existing one the text
\* fallback accepts, or a new singleton carrying the rule-based classification.
FailedTurnOutcome ==
  LET fid == Head(dg.todo)
      t == feedback[fid].content
  IN  /\ classifyFeedback("down", t).severity = QuickSeverity(t)
      /\ QuickSeverity(t) \in Severities
      /\ Cardinality({m \in members' : m[2] = fid}) = 1
      /\ \E id \in 1..Len(clusters') :
            /\ <<id, fid>> \in members'
            /\ merged'[id][Len(merged'[id])] = ZeroVector(EmbDim)
            /\ IF id > Len(clusters)
               THEN /\ clusters'[id].severity = QuickSeverity(t)
                    /\ clusters'[id].category = QuickCategory(t)
                    /\ clusters'[id].centroid = Exact(ZeroVector(EmbDim))
                    /\ clusters'[id].count = 1
               ELSE /\ id \in StoredTextual(t, classifyFeedback("down", t))
                    /\ clusters'[id].count = clusters[id].count + 1

\* The clustering loop of a pass is over and the AI service failed in every
\* one of its turns (every embedding merged is all zero).
PassAllFailed ==
  /\ dg.pc \in {"evaluate", "send", "mark"}
  /\ \A id \in 1..Len(merged) : \A k \in 1..Len(merged[id]) :
        merged[id][k] = ZeroVector(EmbDim)

RECURSIVE SumVectors(_, _)
SumVectors(vs, d) ==
  IF vs = <<>> THEN ZeroVector(d)
  ELSE [i \in 1..d |->
          (IF i <= Len(Head(vs)) THEN Head(vs)[i] ELSE 0) + SumVectors(Tail(vs), d)[i]]

\* The exact arithmetic mean of a non-empty sequence of vectors.
Mean(vs, d) == Normalize(SumVectors(vs, d), Len(vs))

\* The embeddings among vs that have d components.
OfDimension(vs, d) ==
  LET Fits(v) == Len(v) = d
  IN  SelectSeq(vs, Fits)

\* Every embedding merged into cluster id has the dimension of its centroid.
SameDimension(id) ==
  \A k \in 1..Len(merged[id]) : Len(merged[id][k]) = Len(clusters[id].centroid.num)

Rank(sev) ==
  CASE sev = "P0" -> 0
    [] sev = "P1" -> 1
    [] sev = "P2" -> 2
    [] OTHER -> 3

\* The cluster c with effective severity sev, respectively with count n, and
\* every other attribute as it is.
WithSeverity(c, sev) ==
  [c EXCEPT !.severity = sev, !.current_severity = sev, !.original_severity = sev]

WithCount(c, n) == [c EXCEPT !.count = n]

\* The clusters of the running digest once the scoring loop has scored them.
ScoredClusters ==
  IF dg.pc = "send" THEN {dg.clusters[i] : i \in 1..Len(dg.clusters)} ELSE {}

\* C11: calculatePriorityScore is monotone. For every cluster the scoring
\* loop has scored, at the clock of that scoring: giving it a more urgent
\* effective severity never gives a lower score (P0 >= P1 >= P2 >= P3), and
\* giving it a larger count never gives a lower score, everything else
\* equal; and of two scored clusters with the same last_seen, the one that is
\* at least as urgent and has at least as many reports has no lower score.
C11_ScoreMonotone ==
  /\ \A c \in ScoredClusters :
        /\ c.priority_score = calculatePriorityScore(c, now)
        /\ \A s1, s2 \in Severities :
              Rank(s1) <= Rank(s2) =>
                 calculatePriorityScore(WithSeverity(c, s1), now)
                   >= calculatePriorityScore(WithSeverity(c, s2), now)
        /\ \A n1, n2 \in 1..MaxCount :
              n1 <= n2 =>
                 calculatePriorityScore(WithCount(c, n1), now)
                   <= calculatePriorityScore(WithCount(c, n2), now)
  /\ \A a, b \in ScoredClusters :
        /\ a.last_seen = b.last_seen
        /\ Rank(EffectiveSeverity(a)) <= Rank(EffectiveSeverity(b))
        /\ a.count >= b.count
        => a.priority_score >= b.priority_score

\* C11 happens: the scoring loop has scored a cluster with two reports
\* whose effective severity is the downgraded one of a deployed fix.
C11_ScoredDeployedPair ==
  \E c \in ScoredClusters :
     /\ c.count = 2
     /\ c.fix_status = "fix_deployed"
     /\ EffectiveSeverity(c) = c.current_severity
     /\ c.current_severity # c.original_severity

\* ------------------------------------------------------------------- C12
\* The clusters of the digest that has just been generated, as the lifecycle
\* and scoring loops left them.
DigestClusters ==
  IF dg.pc \in {"send", "mark"} THEN {dg.clusters[i] : i \in 1..Len(dg.clusters)}
  ELSE {}

Descending(list) ==
  \A i, j \in 1..Len(list) : i < j => list[i].priority_score >= list[j].priority_score

IdsOf(list) == {list[i].cluster_id : i \in 1..Len(list)}

Smaller(a, b) == IF a < b THEN a ELSE b

\* list holds the cap highest-scoring clusters of group (all of them when
\* there are no more than cap), each once, with its score, in descending
\* score order.
HoldsTopOf(list, group, cap) ==
  /\ Len(list) = Smaller(cap, Cardinality(group))
  /\ Cardinality(IdsOf(list)) = Len(list)
  /\ Descending(list)
  /\ \A i \in 1..Len(list) :
        \E c \in group : /\ c.cluster_id = list[i].cluster_id
                          /\ c.priority_score = list[i].priority_score
  /\ \A c \in group :
        c.cluster_id \notin IdsOf(list) =>
           \A i \in 1..Len(list) : list[i].priority_score >= c.priority_score

\* The entries of top_issues of one fix status group.
EntriesOf(Group(_)) == SelectSeq(digests.latest.top_issues, Group)

\* C12: in every generated digest the new-issue entries are the at most
\* MaxIssues highest-scoring open clusters with count > 1 in descending score
\* order; the monitoring (fix_deployed) and the failed clusters with
\* count > 1 are all listed, uncapped, each group in descending score order;
\* individual_support holds the at most MaxIndividual highest-scoring
\* single-report clusters that are not praise, in descending score order.
C12_BucketsRankedAndCapped ==
  dg.pc \in {"send", "mark"} =>
    LET General(Group(_)) == {c \in DigestClusters : c.count > 1 /\ Group(c)}
        monitoring == General(IsMonitoring)
        failed == General(IsFailedFix)
    IN  /\ HoldsTopOf(EntriesOf(IsNewIssue), General(IsNewIssue), MaxIssues)
        /\ HoldsTopOf(EntriesOf(IsMonitoring), monitoring, Cardinality(monitoring))
        /\ HoldsTopOf(EntriesOf(IsFailedFix), failed, Cardinality(failed))
        /\ HoldsTopOf(digests.latest.individual_support,
                      {c \in DigestClusters : IsIndividualSupport(c)}, MaxIndividual)

\* C12 happens: a digest has been generated from more than MaxIssues open
\* clusters with count > 1 of differing scores, more than MaxIndividual
\* single reports that are not praise, and at least one monitoring and one
\* failed cluster.
C12_BothCapsCut ==
  /\ dg.pc = "send"
  /\ Cardinality({c \in DigestClusters : c.count > 1 /\ IsNewIssue(c)}) > MaxIssues
  /\ Cardinality({c \in DigestClusters : IsIndividualSupport(c)}) > MaxIndividual
  /\ \E c \in DigestClusters : c.count > 1 /\ IsMonitoring(c)
  /\ \E c \in DigestClusters : c.count > 1 /\ IsFailedFix(c)
  /\ \E a, b \in DigestClusters :
        /\ a.count > 1 /\ IsNewIssue(a)
        /\ b.count > 1 /\ IsNewIssue(b)
        /\ a.priority_score # b.priority_score

\* ------------------------------------------------------------------- C13
\* Every entry of the latest stored digest, bucket after bucket.
AllEntries ==
  digests.latest.top_issues \o digests.latest.individual_support
    \o digests.latest.positive_feedback

\* C13: in every generated digest no cluster id occurs more than once: the
\* new-issue, monitoring and failed entries of top_issues, the individual
\* support entries and the positive feedback entries are pairwise disjoint
\* and none of them lists a cluster twice.
C13_NoClusterListedTwice ==
  /\ Cardinality(IdsOf(AllEntries)) = Len(AllEntries)
  /\ \A i \in 1..Len(digests.latest.top_issues) :
        digests.latest.top_issues[i].count > 1
  /\ \A i \in 1..Len(digests.latest.individual_support) :
        digests.latest.individual_support[i].count = 1
  /\ \A i \in 1..Len(digests.latest.positive_feedback) :
        digests.latest.positive_feedback[i].count = 1

\* C13 happens: the stored digest has new-issue, monitoring and failed
\* entries, individual support entries and a positive feedback entry.
C13_AllBucketsFilled ==
  /\ digests.latest.generated_at = MaxNow
  /\ EntriesOf(IsNewIssue) # <<>>
  /\ EntriesOf(IsMonitoring) # <<>>
  /\ EntriesOf(IsFailedFix) # <<>>
  /\ digests.latest.individual_support # <<>>
  /\ digests.latest.positive_feedback # <<>>

\* ------------------------------------------------------------------- C14
\* triageFeedback returns for the request in flight.
TriageReturns == post.pc = "triage" /\ post'.pc # "triage"

\* The rows of feedback whose instant alert was sent.
AlertedRows == {i \in 1..Len(feedback) : feedback[i].instant_alert_sent = 1}

AsksForAlert(row) ==
  \/ row.classification_severity = "P0"
  \/ /\ row.classification_severity = "P1"
     /\ row.classification_confidence >= AlertConfidencePct

C15_ClassificationWithinEnums ==
  /\ \A i \in 1..Len(feedback) :
        /\ feedback[i].classification_severity \in Severities \cup {Null}
        /\ feedback[i].classification_confidence \in {NoNum} \cup 0..100
  /\ \A id \in 1..Len(clusters) :
        /\ clusters[id].severity \in Severities
        /\ clusters[id].category \in Categories

\* C15: the failing state: a stored cluster has a severity outside P0..P3
\* and a category outside the enum.
C15_OffListClusterStored ==
  \E id \in 1..Len(clusters) :
     /\ clusters[id].severity \notin Severities
     /\ clusters[id].category \notin Categories

\* ------------------------------------------------------------------- C16
\* The clustering loop folds the item at the head of the batch, which is
\* neither skipped nor user-specific.
FoldsHead ==
  /\ dg.pc = "fold"
  /\ dg.todo # <<>>
  /\ dg'.todo = Tail(dg.todo)
  /\ ~SkipItem(dg.already, Head(dg.todo))
  /\ ~TakesUserSpecificBranch(feedback[Head(dg.todo)].content)

\* cosineSimilarity has to return 0 for this pair: a zero norm or two lengths.
NoUsableSimilarity(embedding, centroid) ==
  \/ ~HasNonZero(embedding)
  \/ ~HasNonZero(centroid.num)
  \/ Len(embedding) # Len(centroid.num)

\* C16: the all-zero vector is never used in an embedding match. In every
\* turn of the clustering loop: an item whose embedding is all zero is not
\* matched by the cosine step; the cluster the cosine step selects has a
\* centroid that is not all zero and has the embedding's length, and the item
\* joins it; the similarity of a pair with a zero norm or two lengths is not
\* above the threshold; and an item that joins a cluster across such a pair
\* was matched by the text fallback.
C16_ZeroVectorNeverMatched ==
  [][FoldsHead =>
       LET fid == Head(dg.todo)
           t == feedback[fid].content
           embedding == generateEmbedding(ai', t)
           chosen == CosineMatch(Candidates(dg.clusters), embedding)
       IN  /\ ~HasNonZero(embedding) => chosen = 0
           /\ \A i \in 1..Len(dg.clusters) :
                 LET c == dg.clusters[i]
                 IN  /\ NoUsableSimilarity(embedding, c.centroid) =>
                           /\ ~SimilarityAbove(embedding, c.centroid)
                           /\ chosen # c.cluster_id
                           /\ <<c.cluster_id, fid>> \in members' =>
                                 TextMatch(Candidates(dg.clusters), t,
                                           classifyFeedback(ai', t)) = c.cluster_id
                     /\ chosen = c.cluster_id => <<c.cluster_id, fid>> \in members'
     ]_vars

\* C16 happens: a cluster that began with an all-zero centroid took an item
\* with a usable embedding, and an item with an all-zero embedding joined a
\* cluster whose centroid was not all zero.
C16_ZeroVectorsMet ==
  \E id \in 1..Len(clusters) :
     /\ Len(merged[id]) = 3
     /\ ~HasNonZero(merged[id][1])
     /\ HasNonZero(merged[id][2])
     /\ Len(merged[id][2]) = EmbDim
     /\ ~HasNonZero(merged[id][3])

\* ------------------------------------------------------------------- C17
\* A stored cluster the load query of a pass at time t leaves out.
OutsideLookback(row, t) == row.last_seen <= t - ClusterLookbackDays

\* The cluster ids in the memory of the running pass.
InMemoryIds(d) == {d.clusters[i].cluster_id : i \in 1..Len(d.clusters)}

\* C17: a cluster that is in storage when a pass starts, with a last_seen a
\* lookback window or more before the clock of the pass, is not a match
\* candidate of that pass: the load leaves it out of the pass's memory, and
\* in every further step it stays out, no item is merged into it, its row
\* (count, centroid and last_seen included) stays as it is, and no row of
\* clusters is deleted. (The pass's memory is empty before the load and
\* takes each cluster the pass creates as it is created.)
C17_StaleClusterLeftAlone ==
  [][dg.pc # "idle" =>
       /\ Len(clusters') >= Len(clusters)
       /\ \A id \in 1..Len(clusters) :
             OutsideLookback(clusters[id], now) /\ id \notin InMemoryIds(dg) =>
                /\ id \notin InMemoryIds(dg')
                /\ clusters'[id] = clusters[id]
                /\ {m \in members' : m[1] = id} = {m \in members : m[1] = id}
                /\ merged'[id] = merged[id]
     ]_vars

\* C17 happens: a pass has clustered a report of the very text of a stored
\* cluster that is older than the lookback window, in a new cluster.
C17_StaleClusterPassedOver ==
  /\ dg.pc = "evaluate"
  /\ \E old, new \in 1..Len(clusters) :
        /\ clusters[old].last_seen < now - ClusterLookbackDays
        /\ new \in InMemoryIds(dg)
        /\ clusters[new].last_seen = now
        /\ clusters[new].representative_feedback = clusters[old].representative_feedback
        /\ ~isUserSpecificFeedback(clusters[old].representative_feedback)
        /\ clusters[old].count = 1

\* ------------------------------------------------------------------- C18
\* The severity the spec has enter the score of a cluster: by the fix_status
\* the cluster has when it is scored, from the columns of its stored row.
SeverityBySpec(c) ==
  LET row == clusters[c.cluster_id]
  IN  CASE c.fix_status = "fix_deployed" -> row.current_severity
        [] c.fix_status = "failed" -> row.original_severity
        [] OTHER -> row.severity

\* C18, as the spec states it: the severity that enters the priority score
\* of a cluster of a digest pass is current_severity when its fix_status is
\* fix_deployed, original_severity when it is failed, and the severity as
\* originally classified in every other status. The code loads a stored
\* cluster with severity = current_severity || severity, so a resolved
\* cluster is scored with the downgraded severity: violated.
C18_SeverityByFixStatus ==
  \A c \in ScoredClusters :
     /\ c.priority_score = calculatePriorityScore(c, now)
     /\ EffectiveSeverity(c) = SeverityBySpec(c)

\* C18: the failing state: a resolved cluster loaded from storage has been
\* scored with the downgraded severity, not with the one it was classified
\* with.
C18_ResolvedScoredDowngraded ==
  \E c \in ScoredClusters :
     /\ c.fix_status = "resolved"
     /\ clusters[c.cluster_id].fix_status = "resolved"
     /\ EffectiveSeverity(c) = clusters[c.cluster_id].current_severity
     /\ EffectiveSeverity(c) # clusters[c.cluster_id].severity
     /\ c.priority_score = clusters[c.cluster_id].priority_score

\* ------------------------------------------------------------------- C19
\* C19: in one digest generation each cluster's fix_status changes at most
\* once. The only step of a generation that changes a stored fix_status is
\* the lifecycle loop, which a generation runs once (after it, the
\* generation only sends, marks and returns); the loop takes each cluster
\* through one branch: a change is from fix_deployed to resolved or failed,
\* leaves reports_after_fix as it is, and the in-memory cluster ends in the
\* status that was stored, so no cluster passes through two lifecycle states.
C19_OneStatusChangePerGeneration ==
  /\ [][dg.pc # "idle" =>
          \A id \in 1..Len(clusters) :
             clusters'[id].fix_status # clusters[id].fix_status =>
                /\ dg.pc = "evaluate"
                /\ dg'.pc = "send"
                /\ clusters[id].fix_status = "fix_deployed"
                /\ clusters'[id].fix_status \in {"resolved", "failed"}
                /\ clusters'[id].reports_after_fix = clusters[id].reports_after_fix
                /\ \A i \in 1..Len(dg'.clusters) :
                      dg'.clusters[i].cluster_id = id =>
                         dg'.clusters[i].fix_status = clusters'[id].fix_status
     ]_vars
  /\ [][dg.pc \in {"send", "mark", "done"} =>
          dg'.pc \in {"send", "mark", "done", "idle"}]_vars

\* C19 happens: a generation has moved a cluster, loaded as fix_deployed with
\* the downgraded severity, to failed.
C19_MovedToFailed ==
  /\ dg.pc = "send"
  /\ \E i \in 1..Len(dg.clusters) :
        LET c == dg.clusters[i]
        IN  /\ c.fix_status = "failed"
            /\ clusters[c.cluster_id].fix_status = "failed"
            /\ c.severity = DowngradeSeverity(c.original_severity)
            /\ c.severity # c.original_severity

\* ------------------------------------------------------------------- C20
\* A stored cluster whose fix is deployed and still inside its rollout
\* window at time t.
InRollout(row, t) ==
  /\ row.fix_status = "fix_deployed"
  /\ row.fix_deployed_date # NoNum
  /\ t - row.fix_deployed_date <= row.rollout_period_days

\* reports_after_fix, NULL counted as 0.
ReportsAfter(row) == IF row.reports_after_fix = NoNum THEN 0 ELSE row.reports_after_fix

\* The lifecycle loop of the running pass leaves row id of clusters with one
\* more report after the fix and nothing else of its fix state changed.
CountsOnePass(id) ==
  /\ clusters'[id].reports_after_fix = ReportsAfter(clusters[id]) + 1
  /\ clusters'[id].fix_status = clusters[id].fix_status
  /\ clusters'[id].current_severity = clusters[id].current_severity
  /\ clusters'[id].original_severity = clusters[id].original_severity

\* C20, as the spec states it: for every fix_deployed cluster still inside
\* its rollout window, the lifecycle loop of a digest pass increases
\* reports_after_fix by exactly 1, whatever the number of items the pass
\* merged into it, and leaves fix_status, current_severity and
\* original_severity unchanged. The loop runs over the clusters the pass
\* loaded, so a cluster in rollout whose last_seen is outside the lookback
\* window is not counted: violated.
C20_EveryRolloutClusterCounted ==
  [][dg.pc = "evaluate" /\ dg'.pc = "send" =>
       \A id \in 1..Len(clusters) :
          InRollout(clusters[id], now) => CountsOnePass(id)]_vars

\* C20: the failing state: the lifecycle loop of a pass has run and a
\* cluster in rollout that the pass did not load still has no report
\* counted after its fix.
C20_RolloutClusterNotCounted ==
  /\ dg.pc = "send"
  /\ \E id \in 1..Len(clusters) :
        /\ InRollout(clusters[id], now)
        /\ id \notin InMemoryIds(dg)
        /\ clusters[id].reports_after_fix = 0
        /\ clusters[id].fix_deployed_date < now

\* ------------------------------------------------------------------- C21
\* The downgrade the spec lists.
ListedDowngrade ==
  [sev \in Severities |->
     CASE sev = "P0" -> "P2"
       [] sev = "P1" -> "P3"
       [] OTHER -> "P3"]

\* A mark-fixed call has written: the only step that changes clusters while
\* no feedback request and no digest is in flight.
MarkFixedWrites == dg.pc = "idle" /\ post.pc = "idle" /\ clusters' # clusters

\* The columns mark-fixed does not write.
KeptByMarkFixed(row) ==
  <<row.category, row.severity, row.centroid, row.count, row.first_seen, row.last_seen,
    row.representative_feedback_id, row.representative_feedback, row.priority_score,
    row.top_sources>>

\* C21: mark-fixed on an existing cluster sets fix_status = fix_deployed,
\* fix_deployed_date = now, rollout_period_days = the given value or 7,
\* original_severity = the cluster's severity, current_severity = the listed
\* downgrade of it (never more urgent than original_severity),
\* reports_before_fix = the cluster's count and reports_after_fix = 0; it
\* writes that one row, none of its other columns and no other table. (A
\* call on an unknown id leaves every variable as it is.)
C21_MarkFixedStamps ==
  [][MarkFixedWrites =>
       /\ Len(clusters') = Len(clusters)
       /\ UNCHANGED <<now, feedback, members, alerts, digests, post, dg, merged>>
       /\ \E id \in 1..Len(clusters) :
             /\ \A other \in 1..Len(clusters) :
                   other # id => clusters'[other] = clusters[other]
             /\ clusters'[id].fix_status = "fix_deployed"
             /\ clusters'[id].fix_deployed_date = now
             /\ clusters'[id].rollout_period_days \in
                   (RolloutInputs \ {0}) \cup {DefaultRolloutDays}
             /\ clusters'[id].original_severity = clusters[id].severity
             /\ clusters'[id].current_severity = ListedDowngrade[clusters[id].severity]
             /\ Rank(clusters'[id].current_severity)
                   >= Rank(clusters'[id].original_severity)
             /\ clusters'[id].reports_before_fix = clusters[id].count
             /\ clusters'[id].reports_after_fix = 0
             /\ KeptByMarkFixed(clusters'[id]) = KeptByMarkFixed(clusters[id])
     ]_vars

\* C21 happens: after the digests have run, on a later day, a scored cluster
\* of two reports has been marked fixed with a given rollout period.
C21_MarkedAgain ==
  /\ dg.pc = "idle"
  /\ \E id \in 1..Len(clusters) :
        /\ clusters[id].fix_status = "fix_deployed"
        /\ clusters[id].fix_deployed_date = now
        /\ clusters[id].fix_deployed_date > 1
        /\ clusters[id].rollout_period_days = 1
        /\ clusters[id].reports_before_fix = 2
        /\ clusters[id].reports_after_fix = 0
        /\ clusters[id].priority_score # NoNum
        /\ digests.count = MaxDigests

\* ------------------------------------------------------------------- C22
\* The similarity of an embedding and a centroid against the threshold, as
\* exact fractions: -1, 0 or 1 as it is below, equal to or above it.
AgainstThreshold(e, centroid) ==
  LET dot == Dot(e, centroid.num)
      lhs == dot * dot * 100 * 100
      rhs == ThresholdPct * ThresholdPct * Dot(e, e) * Dot(centroid.num, centroid.num)
  IN  IF dot <= 0 \/ lhs < rhs THEN 0 - 1 ELSE IF lhs = rhs THEN 0 ELSE 1

\* The positions of the in-memory list the embedding loop compares e with
\* and finds above the threshold.
AboveThreshold(list, e) ==
  {i \in 1..Len(list) :
     /\ ~IsUserSpecificCluster(list[i])
     /\ HasNonZero(list[i].centroid.num)
     /\ Len(list[i].centroid.num) = Len(e)
     /\ AgainstThreshold(e, list[i].centroid) = 1}

\* C22: in a turn of the clustering loop that reaches the cosine step, the
\* item joins the first cluster of the list whose similarity to its
\* embedding is strictly above the threshold, whatever the similarity of
\* the later ones and whatever the text fallback would pick; when no
\* cluster is strictly above (one at the threshold included), the item
\* goes where the text fallback says, or into a new cluster.
C22_FirstAboveThresholdWins ==
  [][(/\ dg.pc = "fold"
      /\ dg.todo # <<>>
      /\ dg'.pc = "fold"
      /\ dg'.todo = Tail(dg.todo)
      /\ ~SkipItem(dg.already, Head(dg.todo))
      /\ ~isUserSpecificFeedback(feedback[Head(dg.todo)].content))
     => LET fid == Head(dg.todo)
            t == feedback[fid].content
            e == generateEmbedding(ai', t)
            above == AboveThreshold(dg.clusters, e)
            byText == TextMatch(dg.clusters, t, classifyFeedback(ai', t))
            joined == IF HasNonZero(e) /\ above # {}
                      THEN dg.clusters[CHOOSE i \in above : \A j \in above : i <= j].cluster_id
                      ELSE IF byText # 0 THEN byText ELSE Len(clusters) + 1
        IN  members' = members \cup {<<joined, fid>>}]_vars

\* Witness for C22: two clusters stand apart because their first reports
\* are exactly at the threshold of each other, and a third report has
\* joined the earlier one although it is more similar to the later one,
\* which is also the only one its text matches.
C22_JoinedFirstNotClosest ==
  \E a, b \in 1..Len(clusters) :
    /\ a < b
    /\ Len(merged[a]) = 2
    /\ Len(merged[b]) = 1
    /\ LET x == Exact(merged[a][1])
           y == Exact(merged[b][1])
           e == merged[a][2]
       IN  /\ AgainstThreshold(merged[b][1], x) = 0
           /\ AgainstThreshold(e, x) = 1
           /\ AgainstThreshold(e, y) = 1
           /\ Dot(e, y.num) * Dot(e, y.num) * Dot(x.num, x.num)
                > Dot(e, x.num) * Dot(e, x.num) * Dot(y.num, y.num)
    /\ \E fid \in 1..Len(feedback) :
         /\ <<a, fid>> \in members
         /\ fid # clusters[a].representative_feedback_id
         /\ SignificantWords(feedback[fid].content)
              \cap SignificantWords(clusters[b].representative_feedback) # {}
         /\ SignificantWords(feedback[fid].content)
              \cap SignificantWords(clusters[a].representative_feedback) = {}
         /\ extractKeyPhrases(feedback[fid].content) = {}

\* ------------------------------------------------------------------- C23
\* The cluster the head of the batch has just been added to: the one whose
\* membership the turn recorded.
JoinedBy(fid) == {k \in 1..Len(clusters) : <<k, fid>> \in members' \ members}

\* C23: when a turn of the clustering loop adds an item to an existing
\* cluster whose centroid has another dimension than the item's embedding,
\* the stored centroid stays as it was, count grows by one, last_seen
\* becomes the later of itself and the item's timestamp, the item's source
\* is among the sources, the membership is recorded and the loop goes on
\* to the next item.
C23_MismatchKeepsCentroid ==
  [][\A k \in 1..Len(clusters) :
       (/\ dg.pc = "fold"
        /\ dg.todo # <<>>
        /\ k \in JoinedBy(Head(dg.todo))
        /\ Len(generateEmbedding(ai', feedback[Head(dg.todo)].content))
             # Len(clusters[k].centroid.num))
       => LET row == feedback[Head(dg.todo)]
          IN  /\ clusters'[k].centroid = clusters[k].centroid
              /\ clusters'[k].count = clusters[k].count + 1
              /\ clusters'[k].last_seen =
                   (IF row.timestamp > clusters[k].last_seen THEN row.timestamp
                    ELSE clusters[k].last_seen)
              /\ \E i \in 1..Len(clusters'[k].top_sources) :
                   clusters'[k].top_sources[i] = row.source
              /\ members' = members \cup {<<k, Head(dg.todo)>>}
              /\ dg'.pc = "fold"
              /\ dg'.todo = Tail(dg.todo)]_vars

\* Witness for C23: a stored cluster of two members holds embeddings of two
\* dimensions, and its centroid is still the first one.
C23_MismatchedMemberStored ==
  \E k \in 1..Len(clusters) :
    /\ Len(merged[k]) = 2
    /\ Len(merged[k][1]) # Len(merged[k][2])
    /\ clusters[k].count = 2
    /\ clusters[k].centroid = Exact(merged[k][1])
    /\ Cardinality({m \in members : m[1] = k}) = 2

\* ------------------------------------------------------------------- C24
\* The rows of clusters are all still there, as they were or, between the
\* clustering and the digest, as an UPDATE completed before the failure
\* has left them.
KeepsRows(before, after) ==
  /\ Len(after) >= Len(before)
  /\ \A i \in 1..Len(before) :
       \/ after[i] = before[i]
       \/ /\ dg.pc = "evaluate"
          /\ after[i] \in {WriteFix(before[i], c, now) : c \in {dg.clusters[k] : k \in 1..Len(dg.clusters)}}
                        \cup {WriteEvaluated(before[i], c, now) : c \in {dg.clusters[k] : k \in 1..Len(dg.clusters)}}

\* C24: a statement of a digest generation that throws ends the generation
\* with an error for its caller: the step of the failure marks no feedback
\* processed and takes no row of clusters, cluster_members or digests
\* away; after it the run does nothing but return, leaving every table as
\* the failure left it; and feedback is only ever marked processed by the
\* last statement of a run that ends without an error.
C24_FailureAbortsWithoutRollback ==
  [][/\ (dg.result # "error" /\ dg'.result = "error")
        => /\ dg'.pc = "done"
           /\ feedback' = feedback
           /\ KeepsRows(clusters, clusters')
           /\ members \subseteq members'
           /\ digests' = digests
     /\ dg.result = "error"
        => /\ dg' = DgIdle
           /\ UNCHANGED <<feedback, clusters, members, alerts, digests>>
     /\ (\E i \in 1..Len(feedback) : feedback'[i].processed # feedback[i].processed)
        => /\ dg.pc = "mark"
           /\ dg'.result = "sent"]_vars

\* Witness for C24: a run has ended with an error after it had stored a
\* digest, scored a cluster and recorded a membership, and the feedback it
\* clustered is still unprocessed.
C24_FailedAfterWrites ==
  /\ dg.result = "error"
  /\ digests.count >= 1
  /\ \E m \in members :
       /\ feedback[m[2]].processed = 0
       /\ feedback[m[2]].instant_alert_sent = 0
       /\ clusters[m[1]].priority_score # NoNum

\* ------------------------------------------------------------------- C25
\* C25: with requests served one after the other and every statement
\* succeeding, every stored cluster has a count of at least 1, equal to
\* the number of cluster_members rows that reference it.
C25_CountIsMemberCount ==
  \A k \in 1..Len(clusters) :
    /\ clusters[k].count >= 1
    /\ clusters[k].count = Cardinality(MembersOf(k))

\* Witness for C25: after the last digest, a cluster that was marked fixed
\* holds two members that joined it in different passes.
C25_TwoPassesTwoMembers ==
  /\ dg.pc = "idle"
  /\ digests.count = MaxDigests
  /\ \E k \in 1..Len(clusters) :
       /\ clusters[k].fix_status # "open"
       /\ clusters[k].count = 2
       /\ Cardinality(MembersOf(k)) = 2
       /\ clusters[k].first_seen < clusters[k].last_seen

\* ------------------------------------------------------------------- C26
\* The feedback ids that have a cluster_members row.
Clustered == {m[2] : m \in members}

\* C26: every feedback item whose processed flag is set has a
\* cluster_members row, also when POST /feedback requests are served while
\* a digest runs.
C26_ProcessedWasClustered ==
  \A i \in 1..Len(feedback) : feedback[i].processed = 1 => i \in Clustered

\* Witness for C26: a digest that ran to its end has marked processed an
\* item that is in no cluster, next to one it did cluster.
C26_ProcessedNeverClustered ==
  /\ dg.result = "sent"
  /\ \E i, j \in 1..Len(feedback) :
       /\ feedback[i].processed = 1
       /\ i \notin Clustered
       /\ feedback[j].processed = 1
       /\ j \in Clustered

\* ------------------------------------------------------------------- C27
\* The feedback ids recorded as instant-alerted: the flag and the row.
Alerted == {i \in 1..Len(feedback) : feedback[i].instant_alert_sent = 1 /\ i \in alerts}

\* C27: no feedback item is both recorded as instant-alerted and a member
\* of a cluster, also when the steps of POST /feedback interleave with a
\* digest.
C27_AlertedNeverClustered ==
  Alerted \cap Clustered = {}

\* Witness for C27: an item is recorded as instant-alerted, is a member of
\* a cluster, and the digest that clustered it has been stored.
C27_AlertedAndClustered ==
  /\ digests.count = 1
  /\ \E i \in Alerted :
       /\ i \in Clustered
       /\ feedback[i].classification_severity = "P0"

\* ------------------------------------------------------------------- C28
\* The arrival timestamps of the members of cluster k.
MemberTimes(k) == {feedback[m[2]].timestamp : m \in MembersOf(k)}

\* C28: for every cluster, first_seen is the smallest and last_seen the
\* largest arrival timestamp among its members.
C28_SeenSpansMembers ==
  \A k \in 1..Len(clusters) :
    MembersOf(k) # {} =>
      /\ clusters[k].first_seen \in MemberTimes(k)
      /\ clusters[k].last_seen \in MemberTimes(k)
      /\ \A ts \in MemberTimes(k) :
           clusters[k].first_seen <= ts /\ ts <= clusters[k].last_seen

\* Witness for C28: a cluster of two members that arrived on different
\* days has the later day as its first_seen.
C28_FirstSeenIsNewest ==
  \E k \in 1..Len(clusters) :
    /\ clusters[k].count = 2
    /\ Cardinality(MemberTimes(k)) = 2
    /\ \A ts \in MemberTimes(k) : ts <= clusters[k].first_seen
    /\ clusters[k].first_seen = clusters[k].last_seen

\* What does hold of the two fields and of the representative: last_seen
\* is the largest member timestamp, first_seen is the timestamp of the
\* representative item and is not after last_seen, ...
SeenOfRepresentative ==
  \A k \in 1..Len(clusters) :
    MembersOf(k) # {} =>
      /\ clusters[k].last_seen \in MemberTimes(k)
      /\ \A ts \in MemberTimes(k) : ts <= clusters[k].last_seen
      /\ clusters[k].first_seen =
           feedback[clusters[k].representative_feedback_id].timestamp
      /\ <<k, clusters[k].representative_feedback_id>> \in members
      /\ clusters[k].first_seen <= clusters[k].last_seen

\* ... and no step changes first_seen or the representative of a stored
\* cluster or lowers its last_seen.
SeenNeverRewritten ==
  [][\A k \in 1..Len(clusters) :
       /\ clusters'[k].first_seen = clusters[k].first_seen
       /\ clusters'[k].representative_feedback_id = clusters[k].representative_feedback_id
       /\ clusters'[k].representative_feedback = clusters[k].representative_feedback
       /\ clusters'[k].last_seen >= clusters[k].last_seen]_vars

\* ------------------------------------------------------------------- C29
\* The fix statuses no digest pass leaves.
Absorbing == {"resolved", "failed"}

\* C29: no step of a digest pass changes the fix_status of a resolved or
\* failed cluster, whether or not the pass merges items into it; a
\* resolved cluster inside the lookback window is loaded as a candidate
\* like any other; and the general-issue groups of the digest a pass
\* stores hold no cluster that is resolved.
C29_ResolvedAndFailedStay ==
  [][/\ \A k \in 1..Len(clusters) :
          (dg' # dg /\ clusters[k].fix_status \in Absorbing)
            => clusters'[k].fix_status = clusters[k].fix_status
     /\ (dg.pc = "load" /\ dg'.pc = "fold")
          => \A k \in 1..Len(clusters) :
               (/\ clusters[k].fix_status = "resolved"
                /\ clusters[k].last_seen > now - ClusterLookbackDays)
               => \E i \in 1..Len(dg'.clusters) :
                    /\ dg'.clusters[i].cluster_id = k
                    /\ dg'.clusters[i].fix_status = "resolved"
     /\ (dg.pc = "evaluate" /\ dg'.pc = "send")
          => \A i \in 1..Len(digests'.latest.top_issues) :
               clusters'[digests'.latest.top_issues[i].cluster_id].fix_status
                 # "resolved"]_vars

\* Witness for C29: the clustering loop of a pass has just added a report
\* to a cluster that was resolved when the pass began.
C29_ReportJoinedResolved ==
  /\ dg.pc = "evaluate"
  /\ \E k \in 1..Len(clusters) :
       /\ clusters[k].fix_status = "resolved"
       /\ clusters[k].count >= 2
       /\ \E m \in MembersOf(k) : m[2] \notin dg.already

\* ------------------------------------------------------------------- C30
\* C30: a digest generation that starts when no feedback row has
\* processed = 0 and instant_alert_sent = 0 returns at once and changes no
\* table: no clusters row is created or updated (fix fields, counts and
\* scores included), no membership is added, no digest is stored and none
\* is sent.
C30_EmptyBatchChangesNothing ==
  [][/\ (dg.pc = "idle" /\ dg' # dg /\ Unprocessed = {})
          => /\ dg'.pc = "done"
             /\ dg'.result = "nofeedback"
             /\ UNCHANGED <<feedback, clusters, members, alerts, digests>>
     /\ dg.result = "nofeedback"
          => /\ dg' = DgIdle
             /\ UNCHANGED <<feedback, clusters, members, alerts, digests>>]_vars

\* Witness for C30: a generation has returned for want of feedback on a
\* later day than the stored digest, while a cluster with a deployed fix
\* is inside the lookback window with the score of the earlier day.
C30_ReturnedWithFixPending ==
  /\ dg.result = "nofeedback"
  /\ Len(feedback) > 0
  /\ digests.count >= 1
  /\ digests.latest.generated_at < now
  /\ \E k \in 1..Len(clusters) :
       /\ clusters[k].fix_status = "fix_deployed"
       /\ clusters[k].last_seen > now - ClusterLookbackDays
       /\ clusters[k].priority_score # NoNum
       /\ clusters[k].priority_score
            # calculatePriorityScore(LoadCluster(k, clusters[k]), now)

====
